---------------------------- MODULE Spec2Model ----------------------------
(***************************************************************************)
(* Model of the camera view controller (src/src/js/views/camera.js): the   *)
(* capture session life cycle (start_, startWithResolution_, stop, the     *)
(* watchdog and the retry timer) and the per-frame pipeline                *)
(* (onAnimationFrame_, drawCameraFrame_, drawEffectsRibbon_).              *)
(*                                                                         *)
(* Every handler of the source is a function from the state record St to   *)
(* the state record after the handler; an action commits the record a      *)
(* handler returns.  A handler that calls another handler applies that     *)
(* handler's function, so an action always covers the whole call tree.     *)
(***************************************************************************)
EXTENDS Integers, Sequences, FiniteSets, TLC

\* ------------------------------------------------------------------ bounds
\* Largest value of video_.currentTime (number of source frames per stream).
MaxVideoTime == 1
\* Largest value of frame_ at which a frame is still processed: the frames
\* of one stream, each of which advances frame_ by two.
MaxFrame == 2 * (MaxVideoTime + 1)
\* Largest value of video_.currentTime where the cadence of the frame
\* counter is followed: the frames of one stream up to the skip interval of
\* the ribbon's head tracking.
MaxCadenceTime == 30
\* Largest number of pending requestAnimationFrame callbacks.
MaxRaf == 2
\* Largest number of pictures in flight (snapshot, fly-away, transition).
MaxShots == 1
\* Largest number of effects of the ribbon.
MaxProcessors == 6
\* Largest scroll position of the ribbon.
MaxScrollLeft == 2
\* Largest number of pictures between the shot and the end of the fly-away
\* animation.
MaxFlying == 3
\* Largest number of invoke() calls on a style effect.
MaxInvocations == 4
\* Largest number of closures passed to a queue.
MaxClosures == 7
\* Largest number of scrolls the scroll tracker reports.
MaxScrolls == 3
\* Largest number of performance tests.
MaxTests == 1
\* Largest value of performance.now() in steps of the clock, largest number
\* of probes a monitor holds and of measurements in progress at a time.
MaxClock == 7
MaxProbes == 3
MaxMeasuring == 1

\* --------------------------------------------------------------- constants
\* camera.views.Camera.RESOLUTIONS
RESOLUTIONS == << <<1920, 1080>>, <<1280, 720>>, <<800, 600>>, <<640, 480>> >>
\* Delay of the retry timer armed by scheduleRetry.
RETRY_DELAY == 1000
\* camera.views.Camera.PREVIEW_BUFFER_SKIP_FRAMES
PREVIEW_BUFFER_SKIP_FRAMES == 3
\* camera.views.Camera.RIBBON_HEAD_TRACKER_SKIP_FRAMES
RIBBON_HEAD_TRACKER_SKIP_FRAMES == 30
\* Period of the fast-path refresh in drawCameraFrame_.
FAST_REFRESH_FRAMES == 10

\* camera.views.Camera.DrawMode
FAST == "FAST"
NORMAL == "NORMAL"
BEST == "BEST"
DrawMode == {FAST, NORMAL, BEST}

\* The capabilities of the effects of the ribbon, by effect index (the
\* source's index plus one; 0 stands for a processor without an effect).
\* The first entry is camera.effects.Normal; the others cover the
\* combinations of usesHeadTracker(), isMultiframe() and isSlow() the
\* pipeline reads.
EffectCaps ==
  << [usesHeadTracker |-> FALSE, isMultiframe |-> FALSE, isSlow |-> FALSE],
     [usesHeadTracker |-> TRUE,  isMultiframe |-> FALSE, isSlow |-> FALSE],
     [usesHeadTracker |-> FALSE, isMultiframe |-> TRUE,  isSlow |-> FALSE],
     [usesHeadTracker |-> FALSE, isMultiframe |-> FALSE, isSlow |-> TRUE],
     [usesHeadTracker |-> FALSE, isMultiframe |-> TRUE,  isSlow |-> TRUE] >>
EffectIndices == 1..Len(EffectCaps)

\* camera.views.Camera.HeadTrackerQuality
LOW == "LOW"
HeadTrackerQuality == {LOW, NORMAL}

\* camera.util.PerformanceMonitor.HISTORY_LENGTH
HISTORY_LENGTH == 3 * 1000
\* The step of the clock: performance.now() is followed in thirds of the
\* history length, and the monitor is constructed at the first step.
ClockStep == HISTORY_LENGTH \div 3

\* Layout of the ribbon: width of one preview and of the viewport.
ITEM_WIDTH == 1
BODY_WIDTH == 2

\* ------------------------------------------------------------------- state
VARIABLES
  \* capture session
  initialized,            \* initialize() has run (idle listener registered)
  running_,               \* this.running_
  capturing_,             \* this.capturing_
  locked_,                \* this.locked_
  retryStartTimer_,       \* this.retryStartTimer_ (0 is null)
  timers,                 \* armed setTimeout(start_) timers: [id, delay]
  watchdog_,              \* this.watchdog_ (0 is null)
  watchdogs,              \* armed watchdog intervals: [id, stream]
  activeStreams,          \* media streams with stream.active = true
  video,                  \* this.video_: [src, currentTime, videoWidth,
                          \* videoHeight]
  runs,                   \* start_ invocations in progress (closures)
  lastRun,                \* the start_ invocation that finished last
  noCameraError,          \* context error 'no-camera' is shown
  rafPending,             \* pending requestAnimationFrame(onAnimationFrame)
  ribbonInitialization_,  \* this.ribbonInitialization_
  ribbonInitTimer,        \* a 500 ms timer of onSuccess is pending
  onDisconnectedCalls,    \* onDisconnected calls since the session started
  \* frame pipeline
  active,                 \* this.active (camera.View)
  resizing,               \* this.context.resizing
  frame_,                 \* this.frame_
  lastFrameTime_,         \* this.lastFrameTime_
  hidden,                 \* parentNode.hidden of the three main canvases
  drawnMode,              \* mode of the last drawCameraFrame_ call
  fastRefreshed,          \* that call reloaded and processed the fast path
  trackerBusy,            \* this.tracker_.busy
  trackerDetections,      \* detections of this.tracker_ in progress
  trackerInputCanvas_,    \* this.trackerInputCanvas_: [width, height]
  mainProcessor_,         \* this.mainProcessor_ and the canvases exist
  staleEffectsRefreshIndex_,
  ribbonRendered,         \* processors rendered by the last ribbon call
  scrollLeft,             \* horizontal scroll position of the ribbon
  effectProcessors_,      \* length of this.effectProcessors_
  ribbonLog,              \* history of the drawEffectsRibbon_ calls
  mainSamples,            \* samples recorded by the 'main' monitor
  expanded_,              \* this.expanded_
  taking_,                \* this.taking_
  snapshotTimers,         \* pending setTimeout of takePictureImmediately_
  flyAnimations_,         \* length of this.flyAnimations_
  flyTransitions,         \* pending fly-away transition completions
  toolbarCallback,        \* toolbarEffect_.callback_ ("none" is null)
  expandDeferred,         \* a setTimeout(callback, 0) of expanding is pending
  collapseTimer,          \* this.collapseTimer_ is armed
  controlsAnimating,      \* this.controlsEffect_.animating
  toastAnimating,         \* this.toastEffect_.animating
  uiAnimating,            \* this.context.isUIAnimating()
  scrolling,              \* this.scrollTracker_.scrolling
  currentEffectIndex_,    \* this.currentEffectIndex_
  processorEffect,        \* effect of the main, preview and fast processor
  performanceTestTimer_,  \* this.performanceTestTimer_: [set, next]
  performanceTestResults_,
  performanceReports,     \* dialogs with the results of a performance test
  model_,                \* this.model_ is set
  takePictureTimer_,     \* this.takePictureTimer_: "null", "pending", "fired"
  multiShotInterval_,    \* this.multiShotInterval_ is armed
  tickCounter,           \* tickCounter of the closure of takePicture_
  multiShotCounter,      \* multiShotCounter of the closure of takePicture_
  takePictureDisabled,   \* the take-picture button is disabled
  controlsVisible_,      \* this.controlsVisible_
  controlsInvocationTimer,  \* a delayed invocation of controlsEffect_ is pending
  scrollTracker_,        \* this.scrollTracker_ but for scrolling_, which is scrolling
  boardLookup,           \* the lookup of isBoard in initialize(): "none", "pending", "resolved"
  initializeCallbacks,   \* calls of the callback of initialize()
  \* a performance monitor (camera.util.PerformanceMonitor)
  now,                    \* performance.now(), in milliseconds
  probes_,                \* this.probes_: sequence of <<time, duration>>
  tailStartTime_,         \* this.tailStartTime_
  measuring,              \* start times of the measurements in progress
  \* a style effect (camera.util.StyleEffect)
  callback_,              \* this.callback_: the invocation it belongs to
  invocationTimer_,       \* this.invocationTimer_: the invocation it delays
  invocations,            \* the invoke() calls so far, each with its stage
  scheduled,              \* callbacks in setTimeout(callback, 0)
  called,                 \* the callbacks called so far, in order
  \* a queue (camera.util.Queue)
  queue                   \* closures_, running_, and the closures started

monitorVars == << now, probes_, tailStartTime_, measuring >>

effectVars == << callback_, invocationTimer_, invocations, scheduled, called >>

\* The objects of util.js that are followed on their own.
utilVars == << effectVars, queue >>

cameraVars == << initialized, running_, capturing_, locked_, retryStartTimer_,
           timers, watchdog_, watchdogs, activeStreams, video, runs, lastRun,
           noCameraError, rafPending, ribbonInitialization_, ribbonInitTimer,
           onDisconnectedCalls, active, resizing, frame_, lastFrameTime_,
           hidden, drawnMode, fastRefreshed, trackerBusy, trackerDetections,
           trackerInputCanvas_, mainProcessor_, staleEffectsRefreshIndex_,
           ribbonRendered, scrollLeft, effectProcessors_,
           ribbonLog, mainSamples, expanded_, taking_,
           snapshotTimers, flyAnimations_, flyTransitions, toolbarCallback,
           expandDeferred, collapseTimer, controlsAnimating,
           toastAnimating, uiAnimating, scrolling, currentEffectIndex_,
           processorEffect, performanceTestTimer_, performanceTestResults_,
           performanceReports,
           model_,
           takePictureTimer_,
           multiShotInterval_,
           tickCounter,
           multiShotCounter,
           takePictureDisabled,
           controlsVisible_,
           controlsInvocationTimer,
           scrollTracker_,
           boardLookup,
           initializeCallbacks >>

vars == << cameraVars, monitorVars, utilVars >>

\* The current state as a record, the argument of every handler.
St ==
  [ initialized |-> initialized, running_ |-> running_,
    capturing_ |-> capturing_, locked_ |-> locked_,
    retryStartTimer_ |-> retryStartTimer_, timers |-> timers,
    watchdog_ |-> watchdog_, watchdogs |-> watchdogs,
    activeStreams |-> activeStreams, video |-> video, runs |-> runs,
    lastRun |-> lastRun, noCameraError |-> noCameraError,
    rafPending |-> rafPending,
    ribbonInitialization_ |-> ribbonInitialization_,
    ribbonInitTimer |-> ribbonInitTimer,
    onDisconnectedCalls |-> onDisconnectedCalls,
    active |-> active, resizing |-> resizing, frame_ |-> frame_,
    lastFrameTime_ |-> lastFrameTime_, hidden |-> hidden,
    drawnMode |-> drawnMode, fastRefreshed |-> fastRefreshed,
    trackerBusy |-> trackerBusy, trackerDetections |-> trackerDetections,
    trackerInputCanvas_ |-> trackerInputCanvas_,
    mainProcessor_ |-> mainProcessor_,
    staleEffectsRefreshIndex_ |-> staleEffectsRefreshIndex_,
    ribbonRendered |-> ribbonRendered, scrollLeft |-> scrollLeft,
    effectProcessors_ |-> effectProcessors_,
    ribbonLog |-> ribbonLog,
    mainSamples |-> mainSamples, expanded_ |-> expanded_,
    taking_ |-> taking_, snapshotTimers |-> snapshotTimers,
    flyAnimations_ |-> flyAnimations_, flyTransitions |-> flyTransitions,
    toolbarCallback |-> toolbarCallback,
    expandDeferred |-> expandDeferred, collapseTimer |-> collapseTimer,
    controlsAnimating |-> controlsAnimating,
    toastAnimating |-> toastAnimating, uiAnimating |-> uiAnimating,
    scrolling |-> scrolling, currentEffectIndex_ |-> currentEffectIndex_,
    processorEffect |-> processorEffect,
    performanceTestTimer_ |-> performanceTestTimer_,
    performanceTestResults_ |-> performanceTestResults_,
    performanceReports |-> performanceReports,
    model_ |-> model_,
    takePictureTimer_ |-> takePictureTimer_,
    multiShotInterval_ |-> multiShotInterval_,
    tickCounter |-> tickCounter,
    multiShotCounter |-> multiShotCounter,
    takePictureDisabled |-> takePictureDisabled,
    controlsVisible_ |-> controlsVisible_,
    controlsInvocationTimer |-> controlsInvocationTimer,
    scrollTracker_ |-> scrollTracker_,
    boardLookup |-> boardLookup,
    initializeCallbacks |-> initializeCallbacks ]

\* The streams the program still refers to.  A stream nothing refers to
\* can no longer be observed and is dropped from the state.
Referenced(s) ==
  {s.video.src} \cup {w.stream : w \in s.watchdogs}
                \cup {s.runs[i].stream : i \in 1..Len(s.runs)}

\* The next state is the record s.
Commit(s) ==
  /\ initialized' = s.initialized
  /\ running_' = s.running_
  /\ capturing_' = s.capturing_
  /\ locked_' = s.locked_
  /\ retryStartTimer_' = s.retryStartTimer_
  /\ timers' = s.timers
  /\ watchdog_' = s.watchdog_
  /\ watchdogs' = s.watchdogs
  /\ activeStreams' = s.activeStreams \cap Referenced(s)
  /\ video' = s.video
  /\ runs' = s.runs
  /\ lastRun' = s.lastRun
  /\ noCameraError' = s.noCameraError
  /\ rafPending' = s.rafPending
  /\ ribbonInitialization_' = s.ribbonInitialization_
  /\ ribbonInitTimer' = s.ribbonInitTimer
  /\ onDisconnectedCalls' = s.onDisconnectedCalls
  /\ active' = s.active
  /\ resizing' = s.resizing
  /\ frame_' = s.frame_
  /\ lastFrameTime_' = s.lastFrameTime_
  /\ hidden' = s.hidden
  /\ drawnMode' = s.drawnMode
  /\ fastRefreshed' = s.fastRefreshed
  /\ trackerBusy' = s.trackerBusy
  /\ trackerDetections' = s.trackerDetections
  /\ trackerInputCanvas_' = s.trackerInputCanvas_
  /\ mainProcessor_' = s.mainProcessor_
  /\ staleEffectsRefreshIndex_' = s.staleEffectsRefreshIndex_
  /\ ribbonRendered' = s.ribbonRendered
  /\ scrollLeft' = s.scrollLeft
  /\ effectProcessors_' = s.effectProcessors_
  /\ ribbonLog' = s.ribbonLog
  /\ mainSamples' = s.mainSamples
  /\ expanded_' = s.expanded_
  /\ taking_' = s.taking_
  /\ snapshotTimers' = s.snapshotTimers
  /\ flyAnimations_' = s.flyAnimations_
  /\ flyTransitions' = s.flyTransitions
  /\ toolbarCallback' = s.toolbarCallback
  /\ expandDeferred' = s.expandDeferred
  /\ collapseTimer' = s.collapseTimer
  /\ controlsAnimating' = s.controlsAnimating
  /\ toastAnimating' = s.toastAnimating
  /\ uiAnimating' = s.uiAnimating
  /\ scrolling' = s.scrolling
  /\ currentEffectIndex_' = s.currentEffectIndex_
  /\ processorEffect' = s.processorEffect
  /\ performanceTestTimer_' = s.performanceTestTimer_
  /\ performanceTestResults_' = s.performanceTestResults_
  /\ performanceReports' = s.performanceReports
  /\ model_' = s.model_
  /\ takePictureTimer_' = s.takePictureTimer_
  /\ multiShotInterval_' = s.multiShotInterval_
  /\ tickCounter' = s.tickCounter
  /\ multiShotCounter' = s.multiShotCounter
  /\ takePictureDisabled' = s.takePictureDisabled
  /\ controlsVisible_' = s.controlsVisible_
  /\ controlsInvocationTimer' = s.controlsInvocationTimer
  /\ scrollTracker_' = s.scrollTracker_
  /\ boardLookup' = s.boardLookup
  /\ initializeCallbacks' = s.initializeCallbacks
  /\ UNCHANGED << monitorVars, utilVars >>

\* The state after construction (camera.views.Camera).  The visibility of
\* the three canvas wrappers is the one the document gives them until
\* drawCameraFrame_ sets it: "document" is that value, neither "true" nor
\* "false" as far as the program knows.
NoVideo == [src |-> 0, currentTime |-> 0, videoWidth |-> 0, videoHeight |-> 0]

\* The history of the ribbon when the last processed frame has not drawn
\* it: mode is the mode of the last call, calls the number of processFrame
\* calls it made on each processor, notVisible and expanded the processors
\* outside the viewport and expanded_ at that call, age the number of
\* consecutive calls that have not rendered a processor while the two stay
\* the same, and extra and previous the additional frames of the last NORMAL
\* call and of the NORMAL call before it while notVisible stays the same.
NoRibbonCall ==
  [mode |-> "NONE", calls |-> << >>, notVisible |-> {}, expanded |-> FALSE,
   age |-> << >>, extra |-> {}, previous |-> {}]

\* this.performanceTestTimer_ when it is null.  Otherwise set is TRUE, and
\* next is the index of the step its callback progresses to (-1 once the
\* callback has run).
NoTimer == [set |-> FALSE, next |-> -1]

\* The scroll tracker after construction.  intervals counts the armed
\* intervals of probe_, started and ended the calls of onScrollStarted_ and
\* onScrollEnded_.
NoScrollTracker ==
  [timer_ |-> FALSE, intervals |-> 0, noChangeTimer_ |-> FALSE,
   touchPressed_ |-> FALSE, mousePressed_ |-> FALSE,
   lastScrollPosition_ |-> 0, started |-> 0, ended |-> 0]

NoRun == [pc |-> "none", index |-> 0, tried |-> << >>, errors |-> 0,
          retries |-> 0, stream |-> 0]

Init ==
  /\ initialized = FALSE
  /\ running_ = FALSE
  /\ capturing_ = FALSE
  /\ locked_ = FALSE
  /\ retryStartTimer_ = 0
  /\ timers = {}
  /\ watchdog_ = 0
  /\ watchdogs = {}
  /\ activeStreams = {}
  /\ video = NoVideo
  /\ runs = << >>
  /\ lastRun = NoRun
  /\ noCameraError = FALSE
  /\ rafPending = 0
  /\ ribbonInitialization_ = TRUE
  /\ ribbonInitTimer = FALSE
  /\ onDisconnectedCalls = 0
  /\ active = FALSE
  /\ resizing = FALSE
  /\ frame_ = 0
  /\ lastFrameTime_ = -1
  /\ hidden = [c \in {"main", "preview", "fast"} |-> "document"]
  /\ drawnMode = "NONE"
  /\ fastRefreshed = FALSE
  /\ trackerBusy = FALSE
  /\ trackerDetections = 0
  /\ trackerInputCanvas_ = [width |-> 300, height |-> 150]
  /\ mainProcessor_ = FALSE
  /\ staleEffectsRefreshIndex_ = 0
  /\ ribbonRendered = {}
  /\ scrollLeft = 0
  /\ effectProcessors_ = 0
  /\ ribbonLog = NoRibbonCall
  /\ mainSamples = 0
  /\ expanded_ = FALSE
  /\ taking_ = FALSE
  /\ snapshotTimers = 0
  /\ flyAnimations_ = 0
  /\ flyTransitions = 0
  /\ toolbarCallback = "none"
  /\ expandDeferred = FALSE
  /\ collapseTimer = FALSE
  /\ controlsAnimating = FALSE
  /\ toastAnimating = FALSE
  /\ uiAnimating = FALSE
  /\ scrolling = FALSE
  /\ currentEffectIndex_ = 1
  /\ processorEffect = [main |-> 0, preview |-> 0, fast |-> 0]
  /\ performanceTestTimer_ = NoTimer
  /\ performanceTestResults_ = << >>
  /\ performanceReports = 0
  /\ model_ = FALSE
  /\ takePictureTimer_ = "null"
  /\ multiShotInterval_ = FALSE
  /\ tickCounter = 0
  /\ multiShotCounter = 0
  /\ takePictureDisabled = FALSE
  /\ controlsVisible_ = TRUE
  /\ controlsInvocationTimer = FALSE
  /\ scrollTracker_ = NoScrollTracker
  /\ boardLookup = "none"
  /\ initializeCallbacks = 0
  /\ now = ClockStep
  /\ probes_ = << >>
  /\ tailStartTime_ = ClockStep
  /\ measuring = {}
  /\ callback_ = 0
  /\ invocationTimer_ = 0
  /\ invocations = << >>
  /\ scheduled = {}
  /\ called = << >>
  /\ queue = [closures_ |-> << >>, running_ |-> FALSE, executing |-> {},
              started |-> << >>]

\* ------------------------------------------------------- capture session
\* An identifier the platform has not handed out among the ones in use.
FreshId(used) == CHOOSE i \in 1..(Cardinality(used) + 1) : i \notin used

RemoveAt(seq, i) == SubSeq(seq, 1, i - 1) \o SubSeq(seq, i + 1, Len(seq))

\* A start_ invocation ends: its closures are dropped and it is remembered
\* as the invocation that finished last.
FinishRun(s, i, outcome) ==
  [s EXCEPT !.runs = RemoveAt(s.runs, i),
            !.lastRun = [s.runs[i] EXCEPT !.pc = outcome]]

\* Mutant: the new timer is armed but not stored in the slot.
ScheduleRetryNotStored(s) ==
  LET cleared == IF s.retryStartTimer_ # 0
                 THEN [s EXCEPT
                         !.timers = {t \in @ : t.id # s.retryStartTimer_},
                         !.retryStartTimer_ = 0]
                 ELSE s
      id == FreshId({t.id : t \in cleared.timers} \cup {s.retryStartTimer_})
  IN [cleared EXCEPT !.timers = @ \cup {[id |-> id, delay |-> RETRY_DELAY]}]

\* scheduleRetry of start_: cancel the timer the slot refers to, then arm a
\* new one and store it in the slot.
ScheduleRetry(s) ==
  LET cleared == IF s.retryStartTimer_ # 0
                 THEN [s EXCEPT
                         !.timers = {t \in @ : t.id # s.retryStartTimer_},
                         !.retryStartTimer_ = 0]
                 ELSE s
      id == FreshId({t.id : t \in cleared.timers} \cup {s.retryStartTimer_})
  IN [cleared EXCEPT !.timers = @ \cup {[id |-> id, delay |-> RETRY_DELAY]},
                     !.retryStartTimer_ = id]

\* Mutant: stop leaves running_ set.
StopKeepsRunning(s) ==
  [s EXCEPT !.capturing_ = FALSE,
            !.video = NoVideo,
            !.watchdogs = {w \in @ : w.id # s.watchdog_},
            !.watchdog_ = 0]

\* camera.views.Camera.prototype.stop.  Clearing video_.src detaches the
\* stream and resets currentTime.
Stop(s) ==
  LET s1 == [s EXCEPT !.running_ = FALSE,
                      !.capturing_ = FALSE,
                      !.video = NoVideo]
  IN IF s1.watchdog_ # 0
     THEN [s1 EXCEPT !.watchdogs = {w \in @ : w.id # s1.watchdog_},
                     !.watchdog_ = 0]
     ELSE s1

\* Mutant: the running session is not stopped before the request.
StartWithResolutionNoStop(s, i, resolution) ==
  [s EXCEPT !.runs[i].pc = "gum",
            !.runs[i].tried = Append(@, resolution)]

\* startWithResolution_ up to the getUserMedia request of run i.
StartWithResolution_(s, i, resolution) ==
  LET s1 == IF s.running_ THEN Stop(s) ELSE s
  IN [s1 EXCEPT !.runs[i].pc = "gum",
                !.runs[i].tried = Append(@, resolution)]

\* Mutant: the ladder step does not check locked_.
TryNextResolutionUnchecked(s, i) ==
  StartWithResolution_(s, i, RESOLUTIONS[s.runs[i].index + 1])

\* tryNextResolution of run i.
TryNextResolution(s, i) ==
  IF s.locked_
  THEN FinishRun([ScheduleRetry(s) EXCEPT !.runs[i].retries = @ + 1],
                 i, "locked")
  ELSE StartWithResolution_(s, i, RESOLUTIONS[s.runs[i].index + 1])

\* Mutant: a start_ that finds the device locked returns without a retry.
StartLockedNoRetry(s) ==
  LET s1 == [s EXCEPT !.runs = Append(@, [NoRun EXCEPT !.pc = "start"])]
      i == Len(s1.runs)
  IN IF s.locked_
     THEN FinishRun(s1, i, "locked")
     ELSE TryNextResolution(s1, i)

\* camera.views.Camera.prototype.start_.
Start_(s) ==
  LET s1 == [s EXCEPT !.runs = Append(@, [NoRun EXCEPT !.pc = "start"])]
      i == Len(s1.runs)
  IN IF s.locked_
     THEN FinishRun([ScheduleRetry(s1) EXCEPT !.runs[i].retries = @ + 1],
                    i, "locked")
     ELSE TryNextResolution(s1, i)

\* onFailure of start_: the ladder is exhausted.
OnFailure(s, i) ==
  LET s1 == [s EXCEPT !.noCameraError = TRUE, !.runs[i].errors = @ + 1]
  IN FinishRun([ScheduleRetry(s1) EXCEPT !.runs[i].retries = @ + 1],
               i, "exhausted")

\* Mutant: index is not advanced, the same resolution is requested again.
OnResolutionFailureSameIndex(s, i) ==
  IF s.runs[i].index + 1 < Len(RESOLUTIONS)
  THEN [s EXCEPT !.runs[i].pc = "next"]
  ELSE OnFailure(s, i)

\* Mutant: every refused resolution is reported as the 'no-camera' error.
OnResolutionFailureReportsEach(s, i) ==
  LET s1 == [s EXCEPT !.runs[i].index = @ + 1,
                      !.runs[i].errors = @ + 1,
                      !.noCameraError = TRUE]
  IN IF s1.runs[i].index < Len(RESOLUTIONS)
     THEN [s1 EXCEPT !.runs[i].pc = "next"]
     ELSE FinishRun([ScheduleRetry(s1) EXCEPT !.runs[i].retries = @ + 1],
                    i, "exhausted")

\* The failure callback tryNextResolution passes to startWithResolution_.
OnResolutionFailure(s, i) ==
  LET s1 == [s EXCEPT !.runs[i].index = @ + 1]
  IN IF s1.runs[i].index < Len(RESOLUTIONS)
     THEN [s1 EXCEPT !.runs[i].pc = "next"]
     ELSE OnFailure(s1, i)

\* onSuccess of start_.
OnSuccess(s, i) ==
  LET s1 == [s EXCEPT !.ribbonInitTimer = TRUE]
      s2 == IF s1.retryStartTimer_ # 0
            THEN [s1 EXCEPT
                    !.timers = {t \in @ : t.id # s1.retryStartTimer_},
                    !.retryStartTimer_ = 0]
            ELSE s1
  IN FinishRun([s2 EXCEPT !.noCameraError = FALSE], i, "success")

\* --------------------------------------------------------- frame pipeline
\* The effect of the main processor.
MainEffect(s) == EffectCaps[s.processorEffect.main]

\* toolbarEffect_.animating
ToolbarAnimating(s) == s.toolbarCallback # "none"

\* Mutant: the busy conditions are tested before isMultiframe().
SelectDrawModeBusyFirst(s) ==
  IF \/ s.taking_
     \/ ToolbarAnimating(s)
     \/ s.controlsAnimating
     \/ MainEffect(s).isSlow
     \/ s.uiAnimating
     \/ s.toastAnimating
     \/ (s.scrolling /\ s.expanded_)
  THEN FAST
  ELSE IF MainEffect(s).isMultiframe THEN BEST ELSE NORMAL

\* Mutant: scrolling forces the fast mode also when the ribbon is collapsed.
SelectDrawModeAnyScroll(s) ==
  IF MainEffect(s).isMultiframe
  THEN BEST
  ELSE IF \/ s.taking_
          \/ ToolbarAnimating(s)
          \/ s.controlsAnimating
          \/ MainEffect(s).isSlow
          \/ s.uiAnimating
          \/ s.toastAnimating
          \/ s.scrolling
       THEN FAST
       ELSE NORMAL

\* The draw mode onAnimationFrame_ chooses for the main view.
SelectDrawMode(s) ==
  IF MainEffect(s).isMultiframe
  THEN BEST
  ELSE IF \/ s.taking_
          \/ ToolbarAnimating(s)
          \/ s.controlsAnimating
          \/ MainEffect(s).isSlow
          \/ s.uiAnimating
          \/ s.toastAnimating
          \/ (s.scrolling /\ s.expanded_)
       THEN FAST
       ELSE NORMAL

\* Mutant: the NORMAL case does not hide the full-resolution canvas.
DrawCameraFrameMainLeftShown(s, mode) ==
  LET s1 == [s EXCEPT !.fastRefreshed =
                        (s.frame_ % FAST_REFRESH_FRAMES = 0 \/ mode = FAST),
                      !.drawnMode = mode]
  IN CASE mode = FAST ->
            [s1 EXCEPT !.hidden["main"] = "true",
                       !.hidden["preview"] = "true",
                       !.hidden["fast"] = "false"]
       [] mode = NORMAL ->
            [s1 EXCEPT !.hidden["preview"] = "false",
                       !.hidden["fast"] = "true"]
       [] mode = BEST ->
            [s1 EXCEPT !.hidden["main"] = "false",
                       !.hidden["preview"] = "true",
                       !.hidden["fast"] = "true"]

\* camera.views.Camera.prototype.drawCameraFrame_.
DrawCameraFrame_(s, mode) ==
  LET s1 == [s EXCEPT !.fastRefreshed =
                        (s.frame_ % FAST_REFRESH_FRAMES = 0 \/ mode = FAST),
                      !.drawnMode = mode]
  IN CASE mode = FAST ->
            [s1 EXCEPT !.hidden["main"] = "true",
                       !.hidden["preview"] = "true",
                       !.hidden["fast"] = "false"]
       [] mode = NORMAL ->
            [s1 EXCEPT !.hidden["main"] = "true",
                       !.hidden["preview"] = "false",
                       !.hidden["fast"] = "true"]
       [] mode = BEST ->
            [s1 EXCEPT !.hidden["main"] = "false",
                       !.hidden["preview"] = "true",
                       !.hidden["fast"] = "true"]

\* getBoundingClientRect of the output of preview processor p.
EffectRect(s, p) ==
  [left |-> (p - 1) * ITEM_WIDTH - s.scrollLeft,
   right |-> p * ITEM_WIDTH - s.scrollLeft]

\* The elements of the set ps in increasing order.
RECURSIVE Sorted(_)
Sorted(ps) ==
  IF ps = {} THEN << >>
  ELSE LET m == CHOOSE x \in ps : \A y \in ps : x <= y
       IN <<m>> \o Sorted(ps \ {m})

\* The preview processors whose output is within the horizontal bounds of
\* the viewport, by the test of drawEffectsRibbon_.
Visible(s) ==
  {p \in 1..s.effectProcessors_ :
     /\ EffectRect(s, p).right >= 0
     /\ EffectRect(s, p).left < BODY_WIDTH}

\* The history of the ribbon after a call of drawEffectsRibbon_ in the given
\* mode that makes calls[p] calls of processFrame on processor p and takes
\* the processors of extra from the ones it has not drawn.
RibbonLog(s, mode, calls, extra) ==
  LET all == 1..s.effectProcessors_
      notVisible == all \ Visible(s)
      zero == [p \in all |-> 0]
      sameSet == s.ribbonLog.mode # "NONE"
                   /\ s.ribbonLog.notVisible = notVisible
      age == IF sameSet /\ s.ribbonLog.expanded = s.expanded_
             THEN s.ribbonLog.age ELSE zero
      last == IF sameSet THEN s.ribbonLog.extra ELSE {}
      previous == IF sameSet THEN s.ribbonLog.previous ELSE {}
  IN [mode |-> mode, calls |-> calls, notVisible |-> notVisible,
      expanded |-> s.expanded_,
      age |-> [p \in all |-> IF calls[p] > 0 THEN 0 ELSE age[p] + 1],
      extra |-> IF mode = NORMAL THEN extra ELSE last,
      previous |-> IF mode = NORMAL THEN last ELSE previous]

\* Mutant: the additional frame is taken from all the processors.
DrawEffectsRibbonExtraOfAll(s, mode) ==
  LET all == 1..s.effectProcessors_
      drawn == {p \in all : mode = NORMAL /\ p \in Visible(s)}
      index == s.staleEffectsRefreshIndex_ + 1
      extra == {Sorted(all)[(index % Cardinality(all)) + 1]}
      calls == [p \in all |-> (IF p \in drawn THEN 1 ELSE 0)
                               + (IF p \in extra THEN 1 ELSE 0)]
  IN [s EXCEPT !.staleEffectsRefreshIndex_ = index,
               !.ribbonRendered = drawn \cup extra,
               !.ribbonLog = RibbonLog(s, mode, calls, extra)]

\* camera.views.Camera.prototype.drawEffectsRibbon_.
\* Mutant: the round-robin index stays as it is.
DrawEffectsRibbonIndexKept(s, mode) ==
  LET all == 1..s.effectProcessors_
      drawn == {p \in all : mode = NORMAL /\ p \in Visible(s)}
      notDrawn == Sorted(all \ drawn)
      index == s.staleEffectsRefreshIndex_
      extra == IF Len(notDrawn) # 0
               THEN {notDrawn[(index % Len(notDrawn)) + 1]}
               ELSE {}
      calls == [p \in all |-> (IF p \in drawn THEN 1 ELSE 0)
                               + (IF p \in extra THEN 1 ELSE 0)]
  IN [s EXCEPT !.ribbonRendered = drawn \cup extra,
               !.ribbonLog = RibbonLog(s, mode, calls, extra)]

DrawEffectsRibbon_(s, mode) ==
  LET all == 1..s.effectProcessors_
      drawn == {p \in all :
                  /\ mode = NORMAL
                  /\ EffectRect(s, p).right >= 0
                  /\ EffectRect(s, p).left < BODY_WIDTH}
      notDrawn == Sorted(all \ drawn)
      index == s.staleEffectsRefreshIndex_ + 1
      extra == IF Len(notDrawn) # 0
               THEN {notDrawn[(index % Len(notDrawn)) + 1]}
               ELSE {}
      calls == [p \in all |-> (IF p \in drawn THEN 1 ELSE 0)
                               + (IF p \in extra THEN 1 ELSE 0)]
  IN [s EXCEPT !.staleEffectsRefreshIndex_ = index,
               !.ribbonRendered = drawn \cup extra,
               !.ribbonLog = RibbonLog(s, mode, calls, extra)]

\* Mutant: the initialization of the ribbon does not lift the suppression.
DrawRibbonNoInitialization(s) ==
  IF /\ ~s.taking_
     /\ ~s.controlsAnimating
     /\ ~s.uiAnimating
     /\ ~s.scrolling
     /\ ~ToolbarAnimating(s)
     /\ ~s.toastAnimating
  THEN IF s.expanded_ /\ s.frame_ % PREVIEW_BUFFER_SKIP_FRAMES = 0
       THEN DrawEffectsRibbon_(s, NORMAL)
       ELSE DrawEffectsRibbon_(s, FAST)
  ELSE [s EXCEPT !.ribbonLog = NoRibbonCall]

\* The ribbon part of onAnimationFrame_.
DrawRibbon(s) ==
  IF \/ /\ ~s.taking_
        /\ ~s.controlsAnimating
        /\ ~s.uiAnimating
        /\ ~s.scrolling
        /\ ~ToolbarAnimating(s)
        /\ ~s.toastAnimating
     \/ s.ribbonInitialization_
  THEN IF s.expanded_ /\ s.frame_ % PREVIEW_BUFFER_SKIP_FRAMES = 0
       THEN DrawEffectsRibbon_(s, NORMAL)
       ELSE DrawEffectsRibbon_(s, FAST)
  ELSE [s EXCEPT !.ribbonLog = NoRibbonCall]

\* Math.round(n * num / den) for n, num, den > 0.
Round(n, num, den) == (2 * n * num + den) \div (2 * den)

\* Mutant: the scale of LOW is 0.5.
SetHeadTrackerQualityLowHalf(s, quality) ==
  LET num == IF quality = NORMAL THEN 4 ELSE 2
      width == IF 2 * s.video.videoWidth < 3 * s.video.videoHeight
               THEN 120 ELSE 160
  IN [s EXCEPT !.trackerInputCanvas_ =
                  [width |-> Round(width, num, 4),
                   height |-> Round(90, num, 4)]]

\* camera.views.Camera.prototype.setHeadTrackerQuality_: scale is 1 for
\* NORMAL and 0.75 for LOW.
SetHeadTrackerQuality_(s, quality) ==
  LET num == IF quality = NORMAL THEN 4 ELSE 3
      width == IF 2 * s.video.videoWidth < 3 * s.video.videoHeight
               THEN 120 ELSE 160
  IN [s EXCEPT !.trackerInputCanvas_ =
                  [width |-> Round(width, num, 4),
                   height |-> Round(90, num, 4)]]

\* camera.Tracker.prototype.detect, which is not part of the sources: by
\* the specification the detector is busy while a detection request is
\* outstanding.
Detect(s) ==
  [s EXCEPT !.trackerBusy = TRUE, !.trackerDetections = @ + 1]

\* Mutant: a detection is requested whether or not the tracker is busy.
RequestHeadTrackerIgnoresBusy(s) ==
  LET requestHeadTrackerUpdate ==
        \/ MainEffect(s).usesHeadTracker
        \/ (s.expanded_ /\ s.frame_ % RIBBON_HEAD_TRACKER_SKIP_FRAMES = 0)
  IN IF requestHeadTrackerUpdate
     THEN Detect(SetHeadTrackerQuality_(s,
            IF MainEffect(s).usesHeadTracker THEN NORMAL ELSE LOW))
     ELSE s

\* The head tracker part of onAnimationFrame_.
RequestHeadTracker(s) ==
  LET requestHeadTrackerUpdate ==
        \/ MainEffect(s).usesHeadTracker
        \/ (s.expanded_ /\ s.frame_ % RIBBON_HEAD_TRACKER_SKIP_FRAMES = 0)
  IN IF ~s.trackerBusy /\ requestHeadTrackerUpdate
     THEN Detect(SetHeadTrackerQuality_(s,
            IF MainEffect(s).usesHeadTracker THEN NORMAL ELSE LOW))
     ELSE s

\* onAnimationFrame_ gets past its three early returns.
ProcessesFrame(s) ==
  s.active /\ ~s.resizing /\ s.lastFrameTime_ # s.video.currentTime

\* onAnimationFrame_ throws a TypeError: without the WebGL canvases
\* mainProcessor_ is null and the iteration dereferences it (or, before
\* that, the undefined effectCanvasTexture_) after the first frame_++.
Throws(s) == ProcessesFrame(s) /\ ~s.mainProcessor_

\* Mutant: the iteration is not skipped while the window is resized.
OnAnimationFrameIgnoresResizing(s) ==
  IF ~s.active THEN s
  ELSE IF s.lastFrameTime_ = s.video.currentTime THEN s
  ELSE IF ~s.mainProcessor_ THEN [s EXCEPT !.frame_ = @ + 1]
  ELSE LET s1 == [s EXCEPT !.frame_ = @ + 1]
           s2 == RequestHeadTracker(s1)
           s3 == DrawCameraFrame_(s2, SelectDrawMode(s2))
           s4 == DrawRibbon(s3)
       IN [s4 EXCEPT !.frame_ = @ + 1,
                     !.mainSamples = @ + 1,
                     !.lastFrameTime_ = s.video.currentTime]

\* Mutant: the iteration is not skipped for a frame already processed.
OnAnimationFrameIgnoresIdentity(s) ==
  IF ~s.active THEN s
  ELSE IF s.resizing THEN s
  ELSE IF ~s.mainProcessor_ THEN [s EXCEPT !.frame_ = @ + 1]
  ELSE LET s1 == [s EXCEPT !.frame_ = @ + 1]
           s2 == RequestHeadTracker(s1)
           s3 == DrawCameraFrame_(s2, SelectDrawMode(s2))
           s4 == DrawRibbon(s3)
       IN [s4 EXCEPT !.frame_ = @ + 1,
                     !.mainSamples = @ + 1,
                     !.lastFrameTime_ = s.video.currentTime]

\* camera.views.Camera.prototype.onAnimationFrame_.  When Throws(s), the
\* result is the state the exception leaves behind.
OnAnimationFrame_(s) ==
  IF ~s.active THEN s
  ELSE IF s.resizing THEN s
  ELSE IF s.lastFrameTime_ = s.video.currentTime THEN s
  ELSE IF ~s.mainProcessor_ THEN [s EXCEPT !.frame_ = @ + 1]
  ELSE LET s1 == [s EXCEPT !.frame_ = @ + 1]
           s2 == RequestHeadTracker(s1)
           s3 == DrawCameraFrame_(s2, SelectDrawMode(s2))
           s4 == DrawRibbon(s3)
       IN [s4 EXCEPT !.frame_ = @ + 1,
                     !.mainSamples = @ + 1,
                     !.lastFrameTime_ = s.video.currentTime]

\* The frame counter is capped: a handler that would process a frame past
\* the cap is not taken.
FrameAllowed(s) == (s.running_ /\ ProcessesFrame(s)) => s.frame_ < MaxFrame

\* Mutant: the callback does not check running_.
OnAnimationFrameUnchecked(s) ==
  LET s1 == [s EXCEPT !.rafPending = @ - 1]
  IN IF Throws(s1) THEN OnAnimationFrame_(s1)
     ELSE [OnAnimationFrame_(s1) EXCEPT !.rafPending = @ + 1]

\* onAnimationFrame of startWithResolution_ as a callback of
\* requestAnimationFrame: the pending callback is consumed, and the loop is
\* armed again unless the session is stopped or the iteration throws.
OnAnimationFrame(s) ==
  LET s1 == [s EXCEPT !.rafPending = @ - 1]
  IN IF ~s1.running_ THEN s1
     ELSE IF Throws(s1) THEN OnAnimationFrame_(s1)
     ELSE [OnAnimationFrame_(s1) EXCEPT !.rafPending = @ + 1]

\* Mutant: the session starts capturing without arming the watchdog.
OnLoadedMetadataNoWatchdog(s, i) ==
  LET s1 == [s EXCEPT !.running_ = TRUE,
                      !.capturing_ = TRUE,
                      !.onDisconnectedCalls = 0]
  IN IF Throws(s1)
     THEN FinishRun(OnAnimationFrame_(s1), i, "thrown")
     ELSE OnSuccess([OnAnimationFrame_(s1) EXCEPT !.rafPending = @ + 1], i)

\* onLoadedMetadata of startWithResolution_, for the stream of run i.  An
\* exception of the first iteration ends the handler before the loop is
\* armed and before onSuccess is called.
OnLoadedMetadata(s, i) ==
  LET id == FreshId({w.id : w \in s.watchdogs} \cup {s.watchdog_})
      s1 == [s EXCEPT !.running_ = TRUE,
                      !.watchdogs =
                         @ \cup {[id |-> id, stream |-> s.runs[i].stream]},
                      !.watchdog_ = id,
                      !.capturing_ = TRUE,
                      !.onDisconnectedCalls = 0]
  IN IF Throws(s1)
     THEN FinishRun(OnAnimationFrame_(s1), i, "thrown")
     ELSE OnSuccess([OnAnimationFrame_(s1) EXCEPT !.rafPending = @ + 1], i)

\* Mutant: the watchdog is not cancelled after the disconnection.
WatchdogPollNotCancelled(s, w) ==
  IF w.stream \notin s.activeStreams
  THEN LET s1 == [s EXCEPT !.capturing_ = FALSE]
       IN [ScheduleRetry(s1) EXCEPT !.onDisconnectedCalls = @ + 1]
  ELSE s

\* One poll of the watchdog interval w.
WatchdogPoll(s, w) ==
  IF w.stream \notin s.activeStreams
  THEN LET s1 == [s EXCEPT !.capturing_ = FALSE]
           s2 == [ScheduleRetry(s1) EXCEPT !.onDisconnectedCalls = @ + 1]
       IN [s2 EXCEPT !.watchdogs = {x \in @ : x.id # s2.watchdog_},
                     !.watchdog_ = 0]
  ELSE s

\* camera.util.StyleEffect.prototype.invoke of toolbarEffect_ (no delay):
\* the callback replaces the pending one and the closure waits for the
\* transition of the toolbar.  A wait that completes when callback_ is null
\* does nothing, and while callback_ is set the wait of the latest invoke
\* is pending, so the pending waits need no counter.
ToolbarInvoke(s, callback) ==
  [s EXCEPT !.toolbarCallback = callback]

\* camera.views.Camera.prototype.setExpanded_; hovered is the :hover state
\* of the toolbar.
SetExpanded_(s, expanded, hovered) ==
  LET s1 == [s EXCEPT !.collapseTimer = FALSE]
  IN IF expanded
     THEN LET s2 == IF ~hovered /\ ~s1.performanceTestTimer_.set
                    THEN [s1 EXCEPT !.collapseTimer = TRUE]
                    ELSE s1
          IN IF ~s2.expanded_ THEN ToolbarInvoke(s2, "expand") ELSE s2
     ELSE IF s1.expanded_
          THEN ToolbarInvoke([s1 EXCEPT !.expanded_ = FALSE], "noop")
          ELSE s1

\* camera.views.Camera.prototype.setCurrentEffect_.
SetCurrentEffect_(s, effectIndex, hovered) ==
  LET s1 == [s EXCEPT !.processorEffect =
                        [main |-> effectIndex, preview |-> effectIndex,
                         fast |-> effectIndex],
                      !.currentEffectIndex_ = effectIndex]
  IN IF ~s1.performanceTestTimer_.set THEN SetExpanded_(s1, TRUE, hovered)
     ELSE s1

\* camera.views.Camera.prototype.showToastMessage_: a transition of the
\* toast starts.
ShowToastMessage_(s) == [s EXCEPT !.toastAnimating = TRUE]

\* camera.views.Camera.prototype.startPerformanceTest_: the timer it arms
\* leads, once the window has its default geometry, to
\* progressPerformanceTest_(0).
StartPerformanceTest_(s) ==
  IF s.performanceTestTimer_.set THEN s
  ELSE [s EXCEPT !.performanceTestResults_ = << >>,
                 !.performanceTestTimer_ = [set |-> TRUE, next |-> 0]]

\* camera.views.Camera.prototype.stopPerformanceTest_.
StopPerformanceTest_(s) ==
  IF ~s.performanceTestTimer_.set THEN s
  ELSE ShowToastMessage_([s EXCEPT !.performanceTestTimer_ = NoTimer])

\* camera.views.Camera.prototype.progressPerformanceTest_.  A result holds
\* the fields effect and ribbon as the code computes them (Math.floor(index
\* - 1 / 2) is index - 1) and, for name, the effect of the main processor.
ProgressPerformanceTest_(s, index) ==
  LET s1 == IF index # 0
            THEN [s EXCEPT !.performanceTestResults_ =
                    Append(@, [effect |-> index - 1,
                               ribbon |-> (index - 1) % 2,
                               name |-> s.processorEffect.main])]
            ELSE s
  IN IF index = s1.effectProcessors_ * 2
     THEN [StopPerformanceTest_(s1) EXCEPT !.performanceReports = @ + 1]
     ELSE LET s2 == SetCurrentEffect_([s1 EXCEPT !.mainSamples = 0],
                                      (index \div 2) + 1, TRUE)
              s3 == SetExpanded_(s2, index % 2 = 1, TRUE)
          IN [s3 EXCEPT !.performanceTestTimer_ =
                          [set |-> TRUE, next |-> index + 1]]

\* camera.views.Camera.prototype.takePictureImmediately_ up to its timer.
TakePictureImmediately_(s) ==
  IF ~s.running_ THEN s
  ELSE [s EXCEPT !.taking_ = TRUE, !.snapshotTimers = @ + 1]

\* The timer of takePictureImmediately_: the snapshot in the best quality,
\* and the fly-away animation of the picture is queued.
Snapshot(s) ==
  [DrawCameraFrame_(s, BEST) EXCEPT !.snapshotTimers = @ - 1,
                                    !.flyAnimations_ = @ + 1]

\* camera.views.Camera.prototype.setControlsVisible_: controlsEffect_ is
\* invoked at once, which clears a delayed invocation and stores the
\* callback, or with a delay.
SetControlsVisible_(s, visible, delayed) ==
  IF s.controlsVisible_ = visible THEN s
  ELSE [s EXCEPT !.controlsInvocationTimer = delayed,
                 !.controlsAnimating = IF delayed THEN @ ELSE TRUE,
                 !.controlsVisible_ = visible]

\* The keys are told apart by getShortcutIdentifier.
NavigationKeys == {"Right", "Left", "Up", "Down", "Space", "Home", "End"}
Keys == NavigationKeys \cup {"Escape", "G"}

\* camera.views.Camera.prototype.onWindowKeyDown_: the cases of the
\* navigation keys have no break and fall through to the default case.
OnWindowKeyDown_(s, key, ribbonFocused, hovered) ==
  IF s.performanceTestTimer_.set THEN s
  ELSE IF ribbonFocused
       THEN SetControlsVisible_(SetExpanded_(s, TRUE, hovered), TRUE, FALSE)
       ELSE IF key \in NavigationKeys
            THEN SetControlsVisible_(SetControlsVisible_(s, FALSE, FALSE),
                                     TRUE, FALSE)
            ELSE SetControlsVisible_(s, TRUE, FALSE)

\* camera.views.Camera.prototype.resetTakePicture_.
ResetTakePicture_(s) ==
  [s EXCEPT !.takePictureTimer_ = "null",
            !.multiShotInterval_ = FALSE,
            !.takePictureDisabled = FALSE]

\* camera.views.Camera.prototype.takePicture_ up to its first timer, with
\* the states of the timer and multi-shot toggles.
TakePicture_(s, timerEnabled, multiEnabled) ==
  IF ~s.running_ \/ ~s.model_ THEN s
  ELSE [s EXCEPT !.takePictureDisabled = TRUE,
                 !.tickCounter = IF timerEnabled THEN 6 ELSE 1,
                 !.multiShotCounter = IF multiEnabled THEN 3 ELSE 1,
                 !.takePictureTimer_ = "pending"]

\* The closure takePicture of takePicture_: one shot of the sequence.
TakePictureShot(s) ==
  LET s1 == [TakePictureImmediately_(s) EXCEPT !.multiShotCounter = @ - 1]
  IN IF s1.multiShotCounter = 0 THEN ResetTakePicture_(s1) ELSE s1

\* The closure onTimerTick of takePicture_, as the callback of the timer.
OnTimerTick(s) ==
  LET s1 == [s EXCEPT !.takePictureTimer_ = "fired", !.tickCounter = @ - 1]
  IN IF s1.tickCounter = 0
     THEN LET s2 == TakePictureShot(s1)
          IN IF s2.multiShotCounter # 0
             THEN [s2 EXCEPT !.multiShotInterval_ = TRUE]
             ELSE s2
     ELSE [s1 EXCEPT !.takePictureTimer_ = "pending"]

\* camera.views.Camera.prototype.onInactivate: the definition that is in
\* effect is the second one of the file.
OnInactivate(s) == ResetTakePicture_(s)

\* camera.util.ScrollTracker.prototype.start.
ScrollTrackerStart(s) ==
  IF s.scrollTracker_.timer_ THEN s
  ELSE [s EXCEPT !.scrollTracker_.timer_ = TRUE,
                 !.scrollTracker_.intervals = @ + 1]

\* camera.views.Camera.prototype.onActivate.
OnActivate(s) == ScrollTrackerStart(s)

\* camera.util.ScrollTracker.prototype.probe_, where animating is
\* this.scroller_.animating.
Probe_(s, animating) ==
  LET t == s.scrollTracker_
      scrollChanged == s.scrollLeft # t.lastScrollPosition_ \/ animating
      s1 == IF scrollChanged
            THEN [s EXCEPT !.scrollTracker_.started =
                             IF s.scrolling THEN @ ELSE @ + 1,
                           !.scrolling = TRUE]
            ELSE IF ~t.mousePressed_ /\ ~t.touchPressed_ /\ s.scrolling
                 THEN [s EXCEPT !.scrollTracker_.ended = @ + 1,
                                !.scrolling = FALSE]
                 ELSE s
      s2 == IF t.touchPressed_
            THEN IF scrollChanged
                 THEN [s1 EXCEPT !.scrollTracker_.noChangeTimer_ = FALSE]
                 ELSE IF s1.scrolling /\ ~t.noChangeTimer_
                      THEN [s1 EXCEPT !.scrollTracker_.noChangeTimer_ = TRUE]
                      ELSE s1
            ELSE s1
  IN [s2 EXCEPT !.scrollTracker_.lastScrollPosition_ = s.scrollLeft]

\* The callback of noChangeTimer_ in probe_.
NoChangeTimeout(s) ==
  [s EXCEPT !.scrollTracker_.ended = @ + 1,
            !.scrolling = FALSE,
            !.scrollTracker_.touchPressed_ = FALSE,
            !.scrollTracker_.noChangeTimer_ = FALSE]

\* ----------------------------------------------------- performance monitor
\* A number of the form num / den (den = 0: Infinity or NaN in the code).
Ratio(num, den) == [num |-> num, den |-> den]

\* The getter fps of camera.util.PerformanceMonitor at the time at.
Fps(ps, tail, at) ==
  IF tail # 0 THEN Ratio(Len(ps) * 1000, at - tail) ELSE Ratio(0, 1)

RECURSIVE SumOfDurations(_)
SumOfDurations(ps) ==
  IF ps = << >> THEN 0 ELSE ps[1][2] + SumOfDurations(Tail(ps))

\* The getter average of camera.util.PerformanceMonitor.
Average(ps) ==
  IF Len(ps) = 0 THEN Ratio(0, 1) ELSE Ratio(SumOfDurations(ps), Len(ps))

\* The number of probes finishMeasuring_ discards from the front.
RECURSIVE Discarded(_, _, _)
Discarded(ps, i, threshold) ==
  IF i < Len(ps) /\ ps[i + 1][1] < threshold
  THEN Discarded(ps, i + 1, threshold)
  ELSE i

\* camera.util.PerformanceMonitor.prototype.finishMeasuring_: the monitor
\* [probes_, tailStartTime_] after a measurement started at startTime
\* finishes at the time at.  The probe pushed last is never discarded, so
\* this.probes_[i] exists.
FinishMeasuring_(ps, tail, startTime, at) ==
  LET pushed == Append(ps, <<at, at - startTime>>)
      threshold == at - HISTORY_LENGTH
      i == Discarded(pushed, 0, threshold)
  IN IF i > 0
     THEN [probes_ |-> SubSeq(pushed, i + 1, Len(pushed)),
           tailStartTime_ |-> pushed[i + 1][1]]
     ELSE [probes_ |-> pushed, tailStartTime_ |-> tail]

\* ----------------------------------------------------------------- actions
\* The body of initialize(): the processors are created with the default
\* effect, the idle listener is registered and start_ is called.
Initialize ==
  /\ ~initialized
  /\ Commit(Start_([St EXCEPT !.initialized = TRUE,
                              !.mainProcessor_ = TRUE,
                              !.processorEffect.main = 1,
                              !.effectProcessors_ = Len(EffectCaps)]))

\* The body of initialize() for a list of effects of another length (the
\* list is filtered by the board): addEffect_ runs once per effect.
InitializeEffects ==
  /\ ~initialized
  /\ \E n \in 1..MaxProcessors :
       Commit(Start_([St EXCEPT !.initialized = TRUE,
                                !.mainProcessor_ = TRUE,
                                !.processorEffect.main = 1,
                                !.effectProcessors_ = n]))

\* The body of initialize() when fx.canvas() throws: the error is reported
\* under the identifier 'no-camera', no processor is created, and the idle
\* listener is registered and start_ is called all the same.
InitializeWebGLFails ==
  /\ ~initialized
  /\ Commit(Start_([St EXCEPT !.initialized = TRUE,
                              !.noCameraError = TRUE]))

\* The idle listener registered by initialize().
OnIdleStateChanged ==
  /\ initialized
  /\ \E newState \in {"locked", "active", "idle"} :
       Commit(IF newState = "locked" THEN [St EXCEPT !.locked_ = TRUE]
              ELSE IF newState = "active" THEN [St EXCEPT !.locked_ = FALSE]
              ELSE St)

\* The retry timer fires: start_ runs.
RetryTimerFires ==
  \E t \in timers : Commit(Start_([St EXCEPT !.timers = @ \ {t}]))

\* getUserMedia grants a stream to run i: the video gets the stream and the
\* run waits for its metadata.  The camera delivers the mode requested (the
\* request gives minWidth and minHeight), so the modes of the camera are
\* the entries of RESOLUTIONS.
GetUserMediaSuccess ==
  \E i \in 1..Len(runs) :
    /\ runs[i].pc = "gum"
    /\ LET id == FreshId(activeStreams \cup Referenced(St))
           resolution == runs[i].tried[Len(runs[i].tried)]
       IN Commit([St EXCEPT !.activeStreams = @ \cup {id},
                            !.video = [src |-> id, currentTime |-> 0,
                                       videoWidth |-> resolution[1],
                                       videoHeight |-> resolution[2]],
                            !.runs[i].pc = "meta",
                            !.runs[i].stream = id])

\* getUserMedia refuses the resolution of run i.
GetUserMediaFailure ==
  \E i \in 1..Len(runs) :
    /\ runs[i].pc = "gum"
    /\ Commit(OnResolutionFailure(St, i))

\* setTimeout(tryNextResolution, 0) of run i fires.
NextResolutionTimer ==
  \E i \in 1..Len(runs) :
    /\ runs[i].pc = "next"
    /\ Commit(TryNextResolution(St, i))

\* The video loaded the metadata of the stream of run i.
LoadedMetadata ==
  \E i \in 1..Len(runs) :
    /\ runs[i].pc = "meta"
    /\ video.src = runs[i].stream
    /\ rafPending < MaxRaf
    /\ FrameAllowed([St EXCEPT !.running_ = TRUE])
    /\ Commit(OnLoadedMetadata(St, i))

\* A watchdog interval fires.
WatchdogFires ==
  \E w \in watchdogs : Commit(WatchdogPoll(St, w))

\* The camera is disconnected: a stream becomes inactive.
StreamEnds ==
  \E id \in activeStreams : Commit([St EXCEPT !.activeStreams = @ \ {id}])

\* The stream attached to the video delivers a new frame.
NewVideoFrame ==
  /\ video.src \in activeStreams
  /\ video.currentTime < MaxVideoTime
  /\ Commit([St EXCEPT !.video.currentTime = @ + 1])

\* onAnimationFrame of startWithResolution_, called by the display refresh.
AnimationFrameCallback ==
  /\ rafPending > 0
  /\ FrameAllowed(St)
  /\ Commit(OnAnimationFrame(St))

\* The same two steps for a stream of MaxCadenceTime frames, where the
\* display refreshes at least as often as the camera delivers frames: a
\* frame is delivered once the frame loop has processed the previous one.
\* One session processes each frame at most once, which bounds the frame
\* counter.
NewVideoFrameCadence ==
  /\ video.src \in activeStreams
  /\ video.currentTime < MaxCadenceTime
  /\ lastFrameTime_ = video.currentTime
  /\ Commit([St EXCEPT !.video.currentTime = @ + 1])

AnimationFrameCallbackCadence ==
  /\ rafPending > 0
  /\ Commit(OnAnimationFrame(St))

\* The 500 ms timer of onSuccess ends the initialization of the ribbon.
RibbonInitTimerFires ==
  /\ ribbonInitTimer
  /\ Commit([St EXCEPT !.ribbonInitTimer = FALSE,
                       !.ribbonInitialization_ = FALSE])

\* The router activates or inactivates the view.
ViewActivated ==
  /\ ~active
  /\ Commit(OnActivate([St EXCEPT !.active = TRUE]))

ViewInactivated ==
  /\ active
  /\ Commit(OnInactivate([St EXCEPT !.active = FALSE]))

\* The window starts or stops being resized (this.context.resizing).
Resizing ==
  Commit([St EXCEPT !.resizing = ~@])

\* The tracker completes a detection.
DetectDone ==
  /\ trackerDetections > 0
  /\ Commit([St EXCEPT !.trackerDetections = @ - 1,
                       !.trackerBusy = FALSE])

\* An effect is selected (click, focus, key or the stored selection).
SelectEffect ==
  /\ mainProcessor_
  /\ \E effectIndex \in EffectIndices, hovered \in BOOLEAN :
       /\ effectIndex <= effectProcessors_
       /\ Commit(SetCurrentEffect_(St, effectIndex, hovered))

\* camera.views.Camera.prototype.onFiltersToggleClicked_ (no performance
\* test).  The ribbon is followed while it stays expanded or collapsed over
\* the frames of a session: the button is clicked before the first frame is
\* processed, and the transition it starts ends at any time.
FiltersToggleClicked ==
  /\ initialized
  /\ ~performanceTestTimer_.set
  /\ frame_ = 0
  /\ \E hovered \in BOOLEAN :
       Commit(SetExpanded_(St, ~expanded_, hovered))

\* The collapse timer of setExpanded_ fires.
CollapseTimerFires ==
  /\ collapseTimer
  /\ Commit(SetExpanded_([St EXCEPT !.collapseTimer = FALSE], FALSE, FALSE))

\* A transition of the toolbar completes: the completion of StyleEffect
\* takes the pending callback and defers it.
ToolbarTransitionEnd ==
  /\ toolbarCallback # "none"
  /\ Commit([St EXCEPT !.toolbarCallback = "none",
                       !.expandDeferred = (@ \/ toolbarCallback = "expand")])

\* A deferred callback of setExpanded_(true) runs; others may stay pending.
ExpandCallback ==
  /\ expandDeferred
  /\ \E more \in BOOLEAN :
       Commit([St EXCEPT !.expandDeferred = more, !.expanded_ = TRUE])

\* The transitions and animations the frame loop only reads.
ControlsAnimation ==
  Commit([St EXCEPT !.controlsAnimating = ~@])

ToastAnimation ==
  Commit([St EXCEPT !.toastAnimating = ~@])

UIAnimation ==
  Commit([St EXCEPT !.uiAnimating = ~@])

Scrolling ==
  Commit([St EXCEPT !.scrolling = ~@])

\* The ribbon is scrolled to another position.  The layout of the ribbon is
\* followed while it stays the same over the frames of a session: it is
\* scrolled before the first frame is processed.
ScrollRibbon ==
  /\ frame_ = 0
  /\ \E x \in 0..MaxScrollLeft :
       /\ x # scrollLeft
       /\ Commit([St EXCEPT !.scrollLeft = x])

\* A picture is taken.
TakePicture ==
  /\ running_
  /\ snapshotTimers + flyAnimations_ + flyTransitions < MaxShots
  /\ Commit(TakePictureImmediately_(St))

SnapshotTimerFires ==
  /\ snapshotTimers > 0
  /\ Commit(Snapshot(St))

\* The fly-away animation of a picture starts (its timer or Escape).
FlyAnimationStarts ==
  /\ flyAnimations_ > 0
  /\ Commit([St EXCEPT !.flyAnimations_ = @ - 1, !.flyTransitions = @ + 1])

\* The fly-away transition of a picture completes.
FlyTransitionEnd ==
  /\ flyTransitions > 0
  /\ Commit([St EXCEPT !.flyTransitions = @ - 1, !.taking_ = FALSE])

\* The gallery model is acquired, or it is not (the two callbacks of
\* getInstance in initialize()): the callback of initialize() is called.
GalleryModelAcquired ==
  /\ initialized
  /\ initializeCallbacks = 0
  /\ Commit([St EXCEPT !.model_ = TRUE, !.initializeCallbacks = @ + 1])

GalleryModelFails ==
  /\ initialized
  /\ initializeCallbacks = 0
  /\ Commit([St EXCEPT !.initializeCallbacks = @ + 1])

\* initialize(callback) is called: it hands its body to camera.util.isBoard
\* as the second argument.  isBoard returns a promise, resolved at once
\* when chrome.chromeosInfoPrivate is missing and by the callback of
\* chrome.chromeosInfoPrivate.get otherwise, and does not use its second
\* argument.
InitializeCalled ==
  /\ boardLookup = "none"
  /\ ~initialized
  /\ \E available \in BOOLEAN :
       Commit([St EXCEPT !.boardLookup =
                           IF available THEN "pending" ELSE "resolved"])

\* The callback of chrome.chromeosInfoPrivate.get fulfils the promise of
\* isBoard.
BoardLookupDone ==
  /\ boardLookup = "pending"
  /\ Commit([St EXCEPT !.boardLookup = "resolved"])

\* The take-picture button is clicked, by the mouse or by the Space key; a
\* disabled button dispatches no click, and the handlers return at once
\* while a performance test is in progress.  The pictures in flight are
\* bounded.
TakePictureClicked ==
  /\ ~takePictureDisabled
  /\ ~performanceTestTimer_.set
  /\ \E timerEnabled, multiEnabled \in BOOLEAN :
       /\ snapshotTimers + flyAnimations_ + flyTransitions
            + (IF multiEnabled THEN 3 ELSE 1) <= MaxFlying
       /\ Commit(TakePicture_(St, timerEnabled, multiEnabled))

\* The timer of the countdown fires.
TakePictureTimerFires ==
  /\ takePictureTimer_ = "pending"
  /\ Commit(OnTimerTick(St))

\* The interval of the multi-shot sequence fires.
MultiShotIntervalFires ==
  /\ multiShotInterval_
  /\ Commit(TakePictureShot(St))

\* -------------------------------------------------------------- StyleEffect
\* invokeClosure of camera.util.StyleEffect.prototype.invoke for invocation
\* id: the callback is stored and the closure starts the effect.
InvokeClosure(id) ==
  /\ callback_' = id
  /\ invocations' = [invocations EXCEPT ![id] = "effect"]

\* camera.util.StyleEffect.prototype.invoke, with or without opt_delay.  An
\* invocation is "delayed" until its timer fires, "dropped" when the timer
\* is cleared first, "effect" while its closure has started the effect and
\* "done" once the closure has reported the completion.
Invoke ==
  /\ Len(invocations) < MaxInvocations
  /\ \E delayed \in BOOLEAN :
       LET id == Len(invocations) + 1
           cleared == IF /\ invocationTimer_ # 0
                         /\ invocations[invocationTimer_] = "delayed"
                      THEN [invocations EXCEPT ![invocationTimer_] = "dropped"]
                      ELSE invocations
       IN IF delayed
          THEN /\ invocationTimer_' = id
               /\ invocations' = Append(cleared, "delayed")
               /\ UNCHANGED callback_
          ELSE /\ invocationTimer_' = 0
               /\ invocations' = Append(cleared, "effect")
               /\ callback_' = id
  /\ UNCHANGED << cameraVars, monitorVars, queue, scheduled, called >>

\* The timer of a delayed invocation fires.
InvocationTimerFires ==
  /\ invocationTimer_ # 0
  /\ invocations[invocationTimer_] = "delayed"
  /\ InvokeClosure(invocationTimer_)
  /\ UNCHANGED << cameraVars, monitorVars, queue, invocationTimer_, scheduled,
                  called >>

\* The closure of an invocation reports the completion of its effect: the
\* function invoke() handed to it runs.
EffectCompletes ==
  /\ \E id \in 1..Len(invocations) :
       /\ invocations[id] = "effect"
       /\ invocations' = [invocations EXCEPT ![id] = "done"]
       /\ IF callback_ = 0
          THEN UNCHANGED << callback_, scheduled >>
          ELSE /\ scheduled' = scheduled \cup {callback_}
               /\ callback_' = 0
  /\ UNCHANGED << cameraVars, monitorVars, queue, invocationTimer_, called >>

\* A timer setTimeout(callback, 0) fires: the callback is called.
CallbackTimerFires ==
  /\ \E id \in scheduled :
       /\ scheduled' = scheduled \ {id}
       /\ called' = Append(called, id)
  /\ UNCHANGED << cameraVars, monitorVars, queue, callback_, invocationTimer_,
                  invocations >>

\* -------------------------------------------------------------------- Queue
\* camera.util.Queue.prototype.continue_.  A closure is [id, sync]: it calls
\* its completion callback before it returns (sync) or later; executing
\* holds the closures between their start and their completion, started
\* the closures in the order of their start.
RECURSIVE Continue_(_)
Continue_(q) ==
  IF Len(q.closures_) = 0 THEN [q EXCEPT !.running_ = FALSE]
  ELSE LET closure == Head(q.closures_)
           q1 == [q EXCEPT !.running_ = TRUE,
                           !.closures_ = Tail(@),
                           !.started = Append(@, closure.id)]
       IN IF closure.sync THEN Continue_(q1)
          ELSE [q1 EXCEPT !.executing = @ \cup {closure.id}]

\* Mutant: run() continues whether or not the queue is running.
QueueRunAlways(q, closure) ==
  Continue_([q EXCEPT !.closures_ = Append(@, closure)])

\* camera.util.Queue.prototype.run.
QueueRun(q, closure) ==
  LET q1 == [q EXCEPT !.closures_ = Append(@, closure)]
  IN IF ~q1.running_ THEN Continue_(q1) ELSE q1

\* The closures enqueued so far are numbered in the order of run().
Enqueued == Len(queue.started) + Len(queue.closures_)

\* run() is called with a new closure.
Run ==
  /\ Enqueued < MaxClosures
  /\ \E sync \in BOOLEAN :
       queue' = QueueRun(queue, [id |-> Enqueued + 1, sync |-> sync])
  /\ UNCHANGED << cameraVars, monitorVars, effectVars >>

\* A closure that is executing calls its completion callback.
ClosureCompletes ==
  /\ \E id \in queue.executing :
       queue' = Continue_([queue EXCEPT !.executing = @ \ {id}])
  /\ UNCHANGED << cameraVars, monitorVars, effectVars >>

\* A key is pressed within the window.
WindowKeyDown ==
  /\ ~performanceTestTimer_.set
  /\ \E key \in Keys, ribbonFocused, hovered \in BOOLEAN :
       Commit(OnWindowKeyDown_(St, key, ribbonFocused, hovered))

\* The mouse leaves the window (onWindowMouseOut_).
WindowMouseOut ==
  /\ ~performanceTestTimer_.set
  /\ Commit(SetControlsVisible_(St, FALSE, TRUE))

\* The timer of the delayed invocation of controlsEffect_ fires.
ControlsInvocationTimerFires ==
  /\ controlsInvocationTimer
  /\ Commit([St EXCEPT !.controlsInvocationTimer = FALSE,
                       !.controlsAnimating = TRUE])

\* The interval of the scroll tracker fires.  The calls of the callbacks are
\* bounded.
Probe ==
  /\ scrollTracker_.intervals > 0
  /\ scrollTracker_.ended < MaxScrolls
  /\ \E animating \in BOOLEAN : Commit(Probe_(St, animating))

\* The fallback timer of the scroll tracker fires.
NoChangeTimerFires ==
  /\ scrollTracker_.noChangeTimer_
  /\ Commit(NoChangeTimeout(St))

\* onMouseDown_, onMouseUp_, onTouchStart_ and onTouchEnd_ of the scroll
\* tracker.
PressOrRelease ==
  \E pressed \in BOOLEAN :
    \/ Commit([St EXCEPT !.scrollTracker_.mousePressed_ = pressed])
    \/ Commit([St EXCEPT !.scrollTracker_.touchPressed_ = pressed])

\* ---------------------------------------------------------- specifications
\* The capture session: negotiation, lock, disconnection and retry, with
\* the frame loop it arms.
Next ==
  \/ Initialize
  \/ InitializeWebGLFails
  \/ OnIdleStateChanged
  \/ RetryTimerFires
  \/ GetUserMediaSuccess
  \/ GetUserMediaFailure
  \/ NextResolutionTimer
  \/ LoadedMetadata
  \/ WatchdogFires
  \/ StreamEnds
  \/ NewVideoFrame
  \/ AnimationFrameCallback
  \/ RibbonInitTimerFires
  \/ ViewActivated

Spec == Init /\ [][Next]_vars

\* The frame pipeline of one session with the user interface around it:
\* every flag the draw mode depends on changes freely.
NextFrame ==
  \/ Initialize
  \/ GetUserMediaSuccess
  \/ LoadedMetadata
  \/ NewVideoFrame
  \/ AnimationFrameCallback
  \/ ViewActivated
  \/ SelectEffect
  \/ ToolbarTransitionEnd
  \/ ExpandCallback
  \/ ControlsAnimation
  \/ ToastAnimation
  \/ UIAnimation
  \/ Scrolling
  \/ TakePicture

SpecFrame == Init /\ [][NextFrame]_vars

\* The main surfaces of one session: the frame loop and the snapshots of
\* taken pictures draw them.
NextSurfaces ==
  \/ Initialize
  \/ GetUserMediaSuccess
  \/ LoadedMetadata
  \/ NewVideoFrame
  \/ AnimationFrameCallback
  \/ ViewActivated
  \/ SelectEffect
  \/ ToolbarTransitionEnd
  \/ ExpandCallback
  \/ TakePicture
  \/ SnapshotTimerFires
  \/ FlyAnimationStarts
  \/ FlyTransitionEnd

SpecSurfaces == Init /\ [][NextSurfaces]_vars

\* The head tracker: the frame loop of a session at any resolution of the
\* ladder, the selection of effects and the completion of detections.
NextTracker ==
  \/ Initialize
  \/ GetUserMediaSuccess
  \/ GetUserMediaFailure
  \/ NextResolutionTimer
  \/ LoadedMetadata
  \/ NewVideoFrame
  \/ AnimationFrameCallback
  \/ ViewActivated
  \/ SelectEffect
  \/ ToolbarTransitionEnd
  \/ ExpandCallback
  \/ DetectDone

SpecTracker == Init /\ [][NextTracker]_vars

\* The cadence of the frame counter: one session that processes a long
\* stream while the ribbon is expanded and effects are selected.
NextCadence ==
  \/ Initialize
  \/ GetUserMediaSuccess
  \/ LoadedMetadata
  \/ NewVideoFrameCadence
  \/ AnimationFrameCallbackCadence
  \/ ViewActivated
  \/ SelectEffect
  \/ ToolbarTransitionEnd
  \/ ExpandCallback
  \/ DetectDone

SpecCadence == Init /\ [][NextCadence]_vars

\* The frame loop over the life of sessions: the view is activated and
\* inactivated, the window is resized, and a disconnected session is
\* stopped by the retry that replaces it.
NextLoop ==
  \/ Initialize
  \/ InitializeWebGLFails
  \/ GetUserMediaSuccess
  \/ LoadedMetadata
  \/ NewVideoFrame
  \/ AnimationFrameCallback
  \/ ViewActivated
  \/ ViewInactivated
  \/ Resizing
  \/ StreamEnds
  \/ WatchdogFires
  \/ RetryTimerFires

SpecLoop == Init /\ [][NextLoop]_vars

\* The ribbon: lists of effects of every length, scrolling, and expanding
\* and collapsing with the transitions of the toolbar, which suppress the
\* ribbon once its initialization has ended.
NextRibbon ==
  \/ InitializeEffects
  \/ GetUserMediaSuccess
  \/ LoadedMetadata
  \/ NewVideoFrameCadence
  \/ AnimationFrameCallbackCadence
  \/ ViewActivated
  \/ FiltersToggleClicked
  \/ ToolbarTransitionEnd
  \/ ExpandCallback
  \/ ScrollRibbon
  \/ RibbonInitTimerFires

SpecRibbon == Init /\ [][NextRibbon]_vars

\* The key sequence that starts the performance test is typed
\* (onKeyPressed returns at once while a test is in progress).
StartPerformanceTest ==
  /\ mainProcessor_
  /\ ~performanceTestTimer_.set
  /\ performanceReports < MaxTests
  /\ Commit(StartPerformanceTest_(St))

\* The timer of the performance test fires: the first step after the start,
\* the next step after the dwell time of a step.
PerformanceTestTimerFires ==
  /\ performanceTestTimer_.next >= 0
  /\ Commit(ProgressPerformanceTest_(
              [St EXCEPT !.performanceTestTimer_.next = -1],
              performanceTestTimer_.next))

\* Time passes.
Tick ==
  /\ now < MaxClock * ClockStep
  /\ now' = now + ClockStep
  /\ UNCHANGED << cameraVars, utilVars, probes_, tailStartTime_, measuring >>

\* camera.util.PerformanceMonitor.prototype.startMeasuring.
StartMeasuring ==
  /\ Cardinality(measuring) < MaxMeasuring
  /\ now \notin measuring
  /\ measuring' = measuring \cup {now}
  /\ UNCHANGED << cameraVars, utilVars, now, probes_, tailStartTime_ >>

\* The callback returned by startMeasuring is called.
FinishMeasuring ==
  /\ Len(probes_) < MaxProbes
  /\ \E startTime \in measuring :
       LET r == FinishMeasuring_(probes_, tailStartTime_, startTime, now)
       IN /\ probes_' = r.probes_
          /\ tailStartTime_' = r.tailStartTime_
          /\ measuring' = measuring \ {startTime}
  /\ UNCHANGED << cameraVars, utilVars, now >>

\* camera.util.PerformanceMonitor.prototype.reset.
ResetMonitor ==
  /\ tailStartTime_' = now
  /\ probes_' = << >>
  /\ UNCHANGED << cameraVars, utilVars, now, measuring >>

\* One performance monitor and the clock.
NextMonitor ==
  \/ Tick
  \/ StartMeasuring
  \/ FinishMeasuring
  \/ ResetMonitor

SpecMonitor == Init /\ [][NextMonitor]_vars

\* The performance test over the effects of EffectCaps, while a session
\* runs and frames are processed.
NextPerformance ==
  \/ Initialize
  \/ GetUserMediaSuccess
  \/ LoadedMetadata
  \/ NewVideoFrame
  \/ AnimationFrameCallback
  \/ ViewActivated
  \/ StartPerformanceTest
  \/ PerformanceTestTimerFires
  \/ ToolbarTransitionEnd
  \/ ExpandCallback

SpecPerformance == Init /\ [][NextPerformance]_vars

\* Taking pictures, with the countdown and the multi-shot sequence, while
\* the view is activated and inactivated and a performance test is started.
NextTakePicture ==
  \/ Initialize
  \/ GalleryModelAcquired
  \/ GalleryModelFails
  \/ GetUserMediaSuccess
  \/ LoadedMetadata
  \/ ViewActivated
  \/ ViewInactivated
  \/ TakePictureClicked
  \/ TakePictureTimerFires
  \/ MultiShotIntervalFires
  \/ SnapshotTimerFires
  \/ FlyAnimationStarts
  \/ FlyTransitionEnd
  \/ StartPerformanceTest
  \/ PerformanceTestTimerFires
  \/ ToolbarTransitionEnd
  \/ ExpandCallback

SpecTakePicture == Init /\ [][NextTakePicture]_vars

\* A style effect under invocations, with and without delay, and the
\* completions of the effects.
NextStyleEffect ==
  \/ Invoke
  \/ InvocationTimerFires
  \/ EffectCompletes
  \/ CallbackTimerFires

SpecStyleEffect == Init /\ [][NextStyleEffect]_vars

\* A queue whose closures call their completion callback exactly once:
\* every closure that is executing completes at some time.
NextQueue ==
  \/ Run
  \/ ClosureCompletes

SpecQueue == Init /\ [][NextQueue]_vars /\ WF_vars(ClosureCompletes)

\* The window controls: keys, the mouse leaving the window, and the
\* transitions of the controls and of the toolbar.
NextControls ==
  \/ Initialize
  \/ WindowKeyDown
  \/ WindowMouseOut
  \/ ControlsInvocationTimerFires
  \/ ControlsAnimation
  \/ ToolbarTransitionEnd
  \/ ExpandCallback
  \/ CollapseTimerFires
  \/ StartPerformanceTest
  \/ PerformanceTestTimerFires

SpecControls == Init /\ [][NextControls]_vars

\* The scroll tracker: probes, the mouse and the touch screen, the fallback
\* timer, while the ribbon is scrolled and the view is activated and
\* inactivated.
NextScroll ==
  \/ ViewActivated
  \/ ViewInactivated
  \/ ScrollRibbon
  \/ Probe
  \/ NoChangeTimerFires
  \/ PressOrRelease

SpecScroll == Init /\ [][NextScroll]_vars

\* The call of initialize() and what follows from it, with the listeners of
\* the window and of the scroll tracker the constructor has registered.
NextInitialize ==
  \/ InitializeCalled
  \/ BoardLookupDone
  \/ WindowKeyDown
  \/ WindowMouseOut
  \/ ControlsInvocationTimerFires
  \/ ControlsAnimation
  \/ ToolbarTransitionEnd
  \/ ExpandCallback
  \/ CollapseTimerFires
  \/ PressOrRelease

SpecInitialize == Init /\ [][NextInitialize]_vars

\* The suppression of the ribbon: the end of the initialization of the
\* ribbon, and every transition and animation the frame loop reads.
NextSuppression ==
  \/ Initialize
  \/ GetUserMediaSuccess
  \/ LoadedMetadata
  \/ NewVideoFrame
  \/ AnimationFrameCallback
  \/ ViewActivated
  \/ RibbonInitTimerFires
  \/ FiltersToggleClicked
  \/ ToolbarTransitionEnd
  \/ ExpandCallback
  \/ ControlsAnimation
  \/ ToastAnimation
  \/ UIAnimation
  \/ Scrolling
  \/ TakePicture

SpecSuppression == Init /\ [][NextSuppression]_vars

\* The capture session alone, with the view inactive.  A timer that is
\* armed fires: setTimeout calls its callback unless it is cleared.
NextSession ==
  \/ Initialize
  \/ InitializeWebGLFails
  \/ OnIdleStateChanged
  \/ RetryTimerFires
  \/ GetUserMediaSuccess
  \/ GetUserMediaFailure
  \/ NextResolutionTimer
  \/ LoadedMetadata
  \/ WatchdogFires
  \/ StreamEnds
  \/ AnimationFrameCallback

SpecSession == Init /\ [][NextSession]_vars /\ WF_vars(RetryTimerFires)

\* ------------------------------------------------------------------ claims
\* A frame was processed in this step.
FrameProcessed == frame_' # frame_

\* C1: whenever a frame is processed while the current effect is
\* multiframe, the frame is drawn in the BEST mode, whatever the other
\* inputs of the selection are.
C1_MultiframeDrawsBest ==
  [][(FrameProcessed /\ EffectCaps[processorEffect.main].isMultiframe)
       => drawnMode' = BEST]_vars

\* A frame of a multiframe effect was drawn in the BEST mode while a picture
\* is being taken and the expanded ribbon is scrolled.
C1_Witness ==
  /\ frame_ > 0
  /\ lastFrameTime_ = video.currentTime
  /\ EffectCaps[processorEffect.main].isMultiframe
  /\ EffectCaps[processorEffect.main].isSlow
  /\ drawnMode = BEST
  /\ taking_ /\ scrolling /\ expanded_

\* C2: a frame processed while the current effect is not multiframe is
\* drawn FAST if a picture is being taken, the toolbar, the window controls
\* or the toast are in transition, the effect is slow, the user interface
\* animates, or the expanded ribbon is scrolled, and NORMAL otherwise.
C2_FastIffBusy ==
  [][(FrameProcessed /\ ~EffectCaps[processorEffect.main].isMultiframe)
       => drawnMode' =
            IF \/ taking_
               \/ toolbarCallback # "none"
               \/ controlsAnimating
               \/ EffectCaps[processorEffect.main].isSlow
               \/ uiAnimating
               \/ toastAnimating
               \/ (scrolling /\ expanded_)
            THEN FAST
            ELSE NORMAL]_vars

\* A frame was drawn NORMAL while the collapsed ribbon is scrolled and no
\* other flag is set.
C2_Witness ==
  /\ frame_ > 0
  /\ lastFrameTime_ = video.currentTime
  /\ drawnMode = NORMAL
  /\ scrolling /\ ~expanded_
  /\ ~taking_ /\ toolbarCallback = "none" /\ ~controlsAnimating
  /\ ~uiAnimating /\ ~toastAnimating
  /\ ~EffectCaps[processorEffect.main].isSlow
  /\ ~EffectCaps[processorEffect.main].isMultiframe

\* C3: after every call of drawCameraFrame_ exactly one of the three main
\* surfaces is shown, the one of the mode passed, and the others are hidden.
C3_OneSurfaceShown ==
  drawnMode # "NONE" =>
    /\ hidden["main"] = (IF drawnMode = BEST THEN "false" ELSE "true")
    /\ hidden["preview"] = (IF drawnMode = NORMAL THEN "false" ELSE "true")
    /\ hidden["fast"] = (IF drawnMode = FAST THEN "false" ELSE "true")

\* The snapshot of a picture showed the full surface after the frame loop
\* had drawn frames of an effect that is not multiframe.
C3_Witness ==
  /\ frame_ > 0
  /\ ~EffectCaps[processorEffect.main].isMultiframe
  /\ flyAnimations_ > 0
  /\ drawnMode = BEST
  /\ hidden["main"] = "false"
  /\ hidden["preview"] = "true"
  /\ hidden["fast"] = "true"

\* a is an initial part of b.
IsPrefix(a, b) ==
  /\ Len(a) <= Len(b)
  /\ \A k \in 1..Len(a) : a[k] = b[k]

\* The start_ invocations in progress and the one that finished last.
AllRuns == {runs[i] : i \in 1..Len(runs)} \cup {lastRun}

\* C4: one start_ invocation requests the resolutions of the ladder in
\* order, each at most once, the next one only after the previous one was
\* refused, and none after the first success.
C4_LadderInOrder ==
  \A r \in AllRuns :
    /\ IsPrefix(r.tried, RESOLUTIONS)
    /\ r.pc \in {"gum", "meta", "success", "thrown"}
         => Len(r.tried) = r.index + 1
    /\ r.pc \in {"next", "exhausted", "locked"} => Len(r.tried) = r.index

\* A negotiation succeeded at the third resolution after two refusals.
C4_Witness ==
  /\ lastRun.pc = "success"
  /\ lastRun.index = 2
  /\ lastRun.tried = SubSeq(RESOLUTIONS, 1, 3)
  /\ capturing_

\* C5: a start_ invocation reports the 'no-camera' error exactly once if all
\* four resolutions are refused and not at all otherwise, and in the former
\* case it schedules exactly one retry, after 1000 ms.
C5_NoCameraOnceWhenExhausted ==
  /\ [](/\ \A i \in 1..Len(runs) : runs[i].errors = 0
        /\ lastRun.pc = "exhausted" =>
             /\ lastRun.errors = 1
             /\ lastRun.retries = 1
             /\ lastRun.tried = RESOLUTIONS
        /\ lastRun.pc \in {"success", "locked"} => lastRun.errors = 0)
  /\ [][(Len(runs') < Len(runs) /\ lastRun'.pc = "exhausted")
          => /\ noCameraError'
             /\ Cardinality(timers') = 1
             /\ \A t \in timers' : t.delay = 1000]_vars

\* The ladder was exhausted: the error is shown and one retry is pending.
C5_Witness ==
  /\ lastRun.pc = "exhausted"
  /\ lastRun.errors = 1
  /\ noCameraError
  /\ Cardinality(timers) = 1

\* C6: at most one retry timer is pending, and it is the one the slot
\* retryStartTimer_ refers to, so that the next request cancels it.
C6_RetrySingleSlot ==
  /\ Cardinality(timers) <= 1
  /\ \A t \in timers : t.id = retryStartTimer_

\* A retry requested by a disconnection is pending while the device is
\* locked, after an earlier retry has already fired.
C6_Witness ==
  /\ Cardinality(timers) = 1
  /\ lastRun.pc = "locked"
  /\ onDisconnectedCalls = 1

\* C7: the watchdog sets capturing_ from true to false only on a poll that
\* finds the stream inactive, and once per disconnection: that poll cancels
\* the watchdog and signals onDisconnected once.
C7_WatchdogOncePerDisconnection ==
  /\ [](/\ onDisconnectedCalls <= 1
        /\ onDisconnectedCalls = 1 => (~capturing_ /\ watchdogs = {}))
  /\ [][(capturing_ /\ ~capturing_' /\ running_')
          => /\ watchdogs # {}
             /\ \A w \in watchdogs : w.stream \notin activeStreams
             /\ watchdogs' = {}
             /\ onDisconnectedCalls' = onDisconnectedCalls + 1]_vars

\* The watchdog has detected the disconnection of a session.
C7_Witness ==
  /\ onDisconnectedCalls = 1
  /\ ~capturing_
  /\ watchdogs = {}
  /\ video.src # 0
  /\ video.src \notin activeStreams

\* C8: when the watchdog signals the disconnection, the session is stopped:
\* running_ is false with the onDisconnected signal.
C8_DisconnectionStops ==
  [][onDisconnectedCalls' > onDisconnectedCalls => ~running_']_vars

\* C9: at most one watchdog is armed, and a session starts only when no
\* session is running.
C9_OneSession ==
  /\ [](Cardinality(watchdogs) <= 1)
  /\ [][(watchdogs' \ watchdogs # {}) => (~running_ /\ watchdogs = {})]_vars

\* A second session is capturing: more frames were processed than its
\* stream has delivered.
C9_Witness ==
  /\ capturing_
  /\ running_
  /\ Cardinality(watchdogs) = 1
  /\ frame_ > 2 * (video.currentTime + 1)

\* The getUserMedia requests in flight.
GumInFlight(rs) == Cardinality({i \in 1..Len(rs) : rs[i].pc = "gum"})

\* C10: no getUserMedia request is issued while locked_ is set; an
\* invocation that finds it set only schedules a retry.
C10_NoRequestWhileLocked ==
  /\ [](lastRun.pc = "locked" => lastRun.retries = 1)
  /\ [][GumInFlight(runs') > GumInFlight(runs) => (~locked_ /\ ~locked_')]_vars

\* A ladder step found the device locked after a refusal and scheduled a
\* retry instead of the next request.
C10_Witness ==
  /\ lastRun.pc = "locked"
  /\ Len(lastRun.tried) >= 1
  /\ locked_
  /\ Cardinality(timers) = 1

\* The start_ invocation that ran last was suppressed by the lock, and no
\* invocation is in progress.
Suppressed == lastRun.pc = "locked" /\ runs = << >>

\* A start_ invocation has issued its first request, for the first entry
\* of the ladder.
FirstRequest ==
  \E i \in 1..Len(runs) :
    runs[i].pc = "gum" /\ runs[i].tried = << RESOLUTIONS[1] >>

\* C11: once the negotiation was suppressed by the lock and the device is
\* unlocked, the first entry of the ladder is eventually requested unless
\* the device is locked again, by the retry timer alone; and at any time
\* there is a session with its watchdog, a negotiation in progress or a
\* pending retry.
C11_ResumesAfterUnlock ==
  /\ [](initialized => (watchdogs # {} \/ runs # << >> \/ timers # {}))
  /\ (Suppressed /\ ~locked_) ~> (locked_ \/ FirstRequest)

\* The first entry is requested by the retry of a suppressed invocation.
C11_Witness ==
  /\ FirstRequest
  /\ lastRun.pc = "locked"
  /\ ~locked_
  /\ timers = {}

\* C12: when the WebGL canvases cannot be created, the error stays
\* reported, and no negotiation is started or retried afterwards.
C12_WebGLFailureIsFinal ==
  (initialized /\ ~mainProcessor_) =>
    /\ noCameraError
    /\ runs = << >>
    /\ lastRun = NoRun
    /\ timers = {}

\* C13: detect() is called only when the tracker is not busy, so at most
\* one detection is in progress at any time.
C13_DetectOnlyWhenIdle ==
  /\ [](trackerDetections <= 1 /\ (trackerBusy <=> trackerDetections = 1))
  /\ [][trackerDetections' > trackerDetections => ~trackerBusy]_vars

\* Two frames were processed with an effect that uses the head tracker,
\* and one detection is in progress.
C13_Witness ==
  /\ mainSamples >= 2
  /\ MainEffect(St).usesHeadTracker
  /\ trackerBusy
  /\ trackerDetections = 1

\* C14: while the ribbon is expanded and the current effect does not use
\* the head tracker, every 30th processed frame requests a detection if the
\* tracker is idle.
C14_PeriodicDetection ==
  [][(/\ mainSamples' = mainSamples + 1
      /\ mainSamples' % RIBBON_HEAD_TRACKER_SKIP_FRAMES = 0
      /\ expanded_
      /\ ~MainEffect(St).usesHeadTracker
      /\ ~trackerBusy)
       => trackerDetections' = trackerDetections + 1]_vars

\* The size of the tracker input setHeadTrackerQuality_ sets for a quality.
TrackerInput(quality) == SetHeadTrackerQuality_(St, quality).trackerInputCanvas_

\* The quality onAnimationFrame_ asks for with the current effect.
QualityOfEffect == IF MainEffect(St).usesHeadTracker THEN NORMAL ELSE LOW

\* C15 as stated: a detection request sets the tracker input to the higher
\* resolution if the current effect uses the head tracker and to the lower
\* one otherwise, and the lower one has half the width and half the height
\* of the higher one.
C15_LowIsHalf ==
  /\ [](video.videoHeight > 0 =>
          /\ 2 * TrackerInput(LOW).width = TrackerInput(NORMAL).width
          /\ 2 * TrackerInput(LOW).height = TrackerInput(NORMAL).height)
  /\ [][trackerDetections' > trackerDetections
          => trackerInputCanvas_' = TrackerInput(QualityOfEffect)]_vars

\* C15 amended: the higher resolution is 120x90 for a video narrower than
\* 3:2 and 160x90 otherwise, and the lower one is 0.75 times the higher one
\* rounded to the nearest integer, 90x68 and 120x68.
C15_LowIsThreeQuarters ==
  /\ [](video.videoHeight > 0 =>
          LET narrow == 2 * video.videoWidth < 3 * video.videoHeight
          IN /\ TrackerInput(NORMAL) =
                  [width |-> IF narrow THEN 120 ELSE 160, height |-> 90]
             /\ TrackerInput(LOW) =
                  [width |-> IF narrow THEN 90 ELSE 120, height |-> 68])
  /\ [][trackerDetections' > trackerDetections
          => trackerInputCanvas_' = TrackerInput(QualityOfEffect)]_vars

\* A detection was requested for an effect that uses the head tracker on a
\* 4:3 stream.
C15_Witness ==
  /\ trackerDetections = 1
  /\ video.videoWidth = 800
  /\ MainEffect(St).usesHeadTracker
  /\ trackerInputCanvas_ = [width |-> 120, height |-> 90]

\* What an iteration of the frame loop works on: the frame counter, the
\* recorded frame identity, the monitor samples, the tracker, the main
\* surfaces and the ribbon.
FrameWork(s) ==
  << s.frame_, s.lastFrameTime_, s.mainSamples, s.trackerBusy,
     s.trackerDetections, s.trackerInputCanvas_, s.hidden, s.drawnMode,
     s.fastRefreshed, s.staleEffectsRefreshIndex_, s.ribbonRendered >>

C17_SkipsWhenInactiveOrResizing ==
  /\ (running_ /\ rafPending > 0 /\ (~active \/ resizing)) =>
       OnAnimationFrame(St) = St
  /\ (/\ running_ /\ rafPending > 0 /\ active /\ ~resizing
      /\ mainProcessor_ /\ lastFrameTime_ # video.currentTime) =>
       /\ OnAnimationFrame(St).mainSamples = mainSamples + 1
       /\ OnAnimationFrame(St).rafPending = rafPending

\* The loop is armed and a new frame waits while the window is resized,
\* after an earlier frame was processed.
C17_Witness ==
  /\ running_
  /\ rafPending > 0
  /\ active
  /\ resizing
  /\ mainSamples >= 1
  /\ lastFrameTime_ # video.currentTime

\* C18: an iteration that finds the frame identity it recorded last changes
\* nothing and arms the loop again, so a frame is processed only when its
\* identity differs from the recorded one, which then becomes its identity.
C18_SameFrameIsNoOp ==
  /\ []((/\ running_ /\ rafPending > 0
         /\ lastFrameTime_ = video.currentTime) =>
          OnAnimationFrame(St) = St)
  /\ [][mainSamples' # mainSamples =>
          /\ lastFrameTime_ # video.currentTime
          /\ video' = video
          /\ lastFrameTime_' = video.currentTime]_vars

\* The loop is armed with the view active and the frame it processed last
\* still current.
C18_Witness ==
  /\ running_
  /\ rafPending > 0
  /\ active
  /\ ~resizing
  /\ mainSamples >= 1
  /\ lastFrameTime_ = video.currentTime

\* C19: every processed frame advances the frame counter by exactly one.
C19_CounterCountsFrames ==
  [][mainSamples' = mainSamples + 1 => frame_' = frame_ + 1]_vars

\* C20: the frame counter never decreases while a session is running, and
\* a session that starts counts from the initial value 0: after the step
\* that starts it, the counter is what the first iteration of that step
\* has added.
C20_CounterResetOnRestart ==
  [][/\ (running_ /\ running_') => frame_' >= frame_
     /\ (~running_ /\ running_') =>
          LET added == frame_' - frame_ IN frame_' = 0 + added]_vars

\* ------------------------------------------------------------------ ribbon
\* C21: a call of drawEffectsRibbon_ in NORMAL mode increments the
\* round-robin index once, renders every processor within the horizontal
\* bounds of the viewport exactly once, and of the processors outside of them
\* exactly the one at the position of the incremented index modulo their
\* number (none when there is none outside).
C21_NormalRendersVisiblePlusOne ==
  [][(staleEffectsRefreshIndex_' # staleEffectsRefreshIndex_
        /\ ribbonLog'.mode = NORMAL) =>
       LET visible == {p \in 1..effectProcessors_ :
                         /\ p * ITEM_WIDTH - scrollLeft >= 0
                         /\ (p - 1) * ITEM_WIDTH - scrollLeft < BODY_WIDTH}
           notVisible == Sorted((1..effectProcessors_) \ visible)
           index == staleEffectsRefreshIndex_ + 1
       IN /\ staleEffectsRefreshIndex_' = index
          /\ \A p \in visible : ribbonLog'.calls[p] = 1
          /\ \A i \in 1..Len(notVisible) :
               ribbonLog'.calls[notVisible[i]] =
                 IF i = (index % Len(notVisible)) + 1 THEN 1 ELSE 0]_vars

C21_Witness ==
  /\ ribbonLog.mode = NORMAL
  /\ scrollLeft > 0
  /\ Cardinality(ribbonLog.notVisible) >= 2
  /\ Cardinality(ribbonRendered) >= 3
  /\ staleEffectsRefreshIndex_ > 2


\* C22: while the set of the processors outside the viewport stays the same,
\* the NORMAL calls of drawEffectsRibbon_ take their additional frame from
\* its members in turn, whatever FAST calls happen in between: each of K
\* members is taken floor(N/K) or ceil(N/K) times in N calls, so that for
\* K >= 2 no member is taken by two NORMAL calls in a row.
C22_FairCoverage ==
  (ribbonLog.mode = NORMAL /\ Cardinality(ribbonLog.notVisible) >= 2) =>
    ribbonLog.extra # ribbonLog.previous

\* C23: while the ribbon is drawn on every processed frame and the viewport
\* and the state of the ribbon (expanded or collapsed) stay the same, every
\* preview processor, within the viewport or not, is rendered again within
\* two calls of drawEffectsRibbon_ per processor of the ribbon, for every
\* number of processors.
C23_NoStarvation ==
  ribbonLog.mode # "NONE" =>
    \A p \in 1..effectProcessors_ :
      ribbonLog.age[p] < 2 * effectProcessors_

C23_Witness ==
  /\ ribbonLog.mode = NORMAL
  /\ effectProcessors_ = MaxProcessors
  /\ Cardinality(ribbonLog.notVisible) = 3
  /\ (frame_ \div 2 - staleEffectsRefreshIndex_) % 3 = 1
  /\ \E p \in ribbonLog.notVisible : ribbonLog.calls[p] = 1
  /\ \E q \in 1..effectProcessors_ : ribbonLog.age[q] >= 4


\* C24: ribbonInitialization_ is true until a timer armed by a successful
\* start clears it and is never set again, and a processed frame draws the
\* ribbon exactly when ribbonInitialization_ is set or no picture is being
\* taken, nothing is scrolling and none of the controls, the UI, the toolbar
\* and the toast is animating.
C24_RibbonSuppression ==
  [][/\ ~initialized => ribbonInitialization_
     /\ ribbonInitialization_' => ribbonInitialization_
     /\ (ribbonInitialization_ /\ ~ribbonInitialization_') => ribbonInitTimer
     /\ (~ribbonInitTimer /\ ribbonInitTimer') => lastRun'.pc = "success"
     /\ frame_' = frame_ + 2 =>
          ((staleEffectsRefreshIndex_' = staleEffectsRefreshIndex_ + 1) <=>
             \/ ribbonInitialization_
             \/ ~(\/ taking_
                  \/ controlsAnimating
                  \/ uiAnimating
                  \/ scrolling
                  \/ toolbarCallback # "none"
                  \/ toastAnimating))
     /\ frame_' # frame_ + 2 =>
          staleEffectsRefreshIndex_' = staleEffectsRefreshIndex_]_vars

C24_Witness ==
  /\ ~ribbonInitialization_
  /\ toastAnimating
  /\ frame_ = 4
  /\ staleEffectsRefreshIndex_ = 1
  /\ ribbonLog.mode = "NONE"


\* ----------------------------------------------------- performance monitor
\* C25: once finishMeasuring_ has moved the start of the window to the
\* oldest retained probe, fps is the number of retained probes per second
\* of the time between the oldest retained probe and the latest probe,
\* whatever the time of the query.
C25_FpsOverRetainedSpan ==
  (/\ Len(probes_) >= 2
   /\ tailStartTime_ = probes_[1][1]
   /\ probes_[Len(probes_)][1] > probes_[1][1]) =>
    LET fps == Fps(probes_, tailStartTime_, now)
        span == probes_[Len(probes_)][1] - probes_[1][1]
    IN fps.num * span = Len(probes_) * 1000 * fps.den

\* C26: at any time, every probe a monitor holds is at most HISTORY_LENGTH
\* old.
C26_NoProbeOlderThanHistory ==
  \A i \in 1..Len(probes_) : probes_[i][1] >= now - HISTORY_LENGTH


\* ----------------------------------------------------------------- effects
\* C27: whenever a frame is processed, the main, the main-preview and the
\* main-fast processor hold the effect of the ribbon entry at
\* currentEffectIndex_.
C27_ProcessorsShareCurrentEffect ==
  [][frame_' = frame_ + 2 =>
       /\ processorEffect.main = currentEffectIndex_
       /\ processorEffect.preview = currentEffectIndex_
       /\ processorEffect.fast = currentEffectIndex_]_vars


\* --------------------------------------------------------------- fast path
\* The state after the stream delivers its next frame and the frame loop
\* processes it.
NextProcessedFrame(s) ==
  OnAnimationFrame_([s EXCEPT !.video.currentTime = @ + 1])

\* The next n frames of the stream are processed one after the other from
\* the state s, each is drawn in NORMAL or BEST mode, and none of them
\* reloads and processes the fast path.
RECURSIVE StaleFastPath(_, _)
StaleFastPath(s, n) ==
  \/ n = 0
  \/ LET t == NextProcessedFrame(s)
     IN /\ t.frame_ = s.frame_ + 2
        /\ t.drawnMode # FAST
        /\ ~t.fastRefreshed
        /\ StaleFastPath(t, n - 1)

\* C28: the fast path is reloaded and processed at least once in every 10
\* processed frames in a row that are drawn in NORMAL or BEST mode.
C28_FastPathRefreshed ==
  (running_ /\ mainProcessor_) => ~StaleFastPath(St, FAST_REFRESH_FRAMES)


\* C29: a performance test over E effects runs exactly 2E steps, one per
\* combination of an effect and a state of the ribbon; every step records
\* one result, whose fields effect and ribbon identify the combination that
\* was active during the step (the effect the main processor held, the
\* ribbon expanded on the odd steps); at the end the timer is cleared and
\* the results are reported once.
C29_ResultsIdentifySteps ==
  /\ Len(performanceTestResults_) <= 2 * effectProcessors_
  /\ performanceReports <= 1
  /\ performanceTestTimer_.next >= 1 =>
       Len(performanceTestResults_) = performanceTestTimer_.next - 1
  /\ performanceReports = 1 =>
       /\ ~performanceTestTimer_.set
       /\ Len(performanceTestResults_) = 2 * effectProcessors_
  /\ \A i \in 1..Len(performanceTestResults_) :
       /\ performanceTestResults_[i].effect + 1 =
            performanceTestResults_[i].name
       /\ performanceTestResults_[i].effect = (i - 1) \div 2
       /\ performanceTestResults_[i].ribbon = (i - 1) % 2


\* C30: at most one callback chain of the frame loop is armed at any time:
\* when a session is stopped and a new one succeeds before the pending
\* callback of the old chain has fired, the old chain does not resume, so
\* one display refresh runs onAnimationFrame_ at most once.
C30_SingleCallbackChain == rafPending <= 1


\* C31: a picture countdown or multi-shot sequence and a performance test
\* are never in progress at the same time: the timer of the performance
\* test is never set while the take-picture timer or the multi-shot
\* interval is pending.
C31_TestExcludesTakePicture ==
  performanceTestTimer_.set =>
    (takePictureTimer_ # "pending" /\ ~multiShotInterval_)


\* -------------------------------------------------------------- StyleEffect
\* The invocations whose closure has run, and whether the callback of the
\* latest of them still waits for the end of an effect: it is neither in a
\* timer nor called.
Started == {id \in 1..Len(invocations) : invocations[id] \in {"effect", "done"}}

CallbackPending ==
  \E id \in Started :
    /\ \A other \in Started : other <= id
    /\ id \notin scheduled
    /\ \A i \in 1..Len(called) : called[i] # id

\* C32: a callback that is called belongs to the latest invoke() and has not
\* been called before, so the callbacks of superseded invocations are never
\* called; a closure that starts belongs to the latest invoke(), so a
\* delayed invocation that is superseded before its timer fires never runs
\* its closure; and animating is true exactly while a callback is pending.
C32_OnlyLatestCallback ==
  [][/\ called' # called =>
          /\ called'[Len(called')] = Len(invocations)
          /\ \A i \in 1..Len(called) : called[i] # called'[Len(called')]
     /\ \A id \in 1..Len(invocations') :
          (/\ invocations'[id] = "effect"
           /\ (id > Len(invocations) \/ invocations[id] # "effect")) =>
            id = Len(invocations')
     /\ (callback_ # 0) <=> CallbackPending]_vars


\* -------------------------------------------------------------------- Queue
\* C33: the closures start in the order of run(), at most one closure is
\* between its start and its completion, running_ is false exactly when no
\* closure is executing and none is queued, and every closure that is
\* enqueued is started at some time.
C33_QueueRunsInOrder ==
  /\ [](/\ \A i \in 1..Len(queue.started) : queue.started[i] = i
        /\ Cardinality(queue.executing) <= 1
        /\ ~queue.running_ <=>
             (queue.executing = {} /\ queue.closures_ = << >>))
  /\ \A id \in 1..MaxClosures :
       (Enqueued >= id) ~> (Len(queue.started) >= id)

\* A closure is executing, two wait behind it and two have completed.
C33_Witness ==
  /\ queue.executing # {}
  /\ Len(queue.closures_) = 2
  /\ Len(queue.started) = 3


\* ----------------------------------------------------------------- controls
\* C34: when no performance test runs and the ribbon is not focused, the
\* window controls are hidden after a navigation key is pressed and visible
\* after any other key is pressed.
C34_NavigationKeyHidesControls ==
  ~performanceTestTimer_.set =>
    \A key \in Keys :
      OnWindowKeyDown_(St, key, FALSE, FALSE).controlsVisible_ =
        (key \notin NavigationKeys)


\* ----------------------------------------------------------- scroll tracker
\* C35: when the view is inactivated the scroll tracker is stopped, so that
\* no interval of probe_ is armed, and a scheduled picture take is
\* cancelled; when the view is activated the tracker is started with
\* exactly one interval.
C35_InactiveViewStopsTracker ==
  [][/\ (active /\ ~active') =>
          /\ ~scrollTracker_'.timer_
          /\ scrollTracker_'.intervals = 0
          /\ takePictureTimer_' # "pending"
          /\ ~multiShotInterval_'
     /\ (~active /\ active') =>
          /\ scrollTracker_'.timer_
          /\ scrollTracker_'.intervals = 1]_vars


\* C38: onScrollStarted_ and onScrollEnded_ are called alternately,
\* beginning with onScrollStarted_, and scrolling is true exactly between a
\* call of onScrollStarted_ and the call of onScrollEnded_ that follows it.
C38_ScrollCallbacksAlternate ==
  /\ scrollTracker_.ended <= scrollTracker_.started
  /\ scrollTracker_.started <= scrollTracker_.ended + 1
  /\ scrolling <=> (scrollTracker_.started = scrollTracker_.ended + 1)


\* --------------------------------------------------------------- initialize
\* C36: initialize(callback) starts the negotiation, calling start_ once,
\* and calls the callback once, whether or not the board lookup is
\* available: once the lookup is resolved the body of initialize() has run,
\* and the callback is never called twice.
C36_InitializeStarts ==
  /\ boardLookup = "resolved" => initialized
  /\ initializeCallbacks <= 1


\* C40: capturing implies running; between callbacks the watchdog interval
\* is armed exactly when capturing is true (the slot watchdog_ refers to the
\* one interval that exists); and while capturing is true no retry timer of
\* start_ is pending.
C40_CapturingSessionIsWatched ==
  /\ capturing_ => running_
  /\ capturing_ <=> (watchdog_ # 0)
  /\ watchdogs = IF capturing_
                 THEN {w \in watchdogs : w.id = watchdog_}
                 ELSE {}
  /\ capturing_ => (watchdogs # {} /\ timers = {})

\* A session that captures with the second resolution, after the first was
\* refused, with its watchdog armed.
C40_Witness ==
  /\ capturing_
  /\ running_
  /\ watchdog_ # 0
  /\ lastRun.pc = "success"
  /\ lastRun.tried = << RESOLUTIONS[1], RESOLUTIONS[2] >>
  /\ video.src \in activeStreams
  /\ timers = {}


\* stop() has returned in this step: a getUserMedia request was issued by
\* startWithResolution_ while the session was running.
StopReturned == running_ /\ GumInFlight(runs') > GumInFlight(runs)

PicturesInProgress == snapshotTimers + flyAnimations_ + flyTransitions

\* C39: taking_ is true from the moment a picture is taken until the
\* fly-away animation of every picture taken has completed, and it is false
\* once the last one has completed.
C39_TakingUntilAllPicturesLand ==
  taking_ <=> (PicturesInProgress > 0)

============================================================================
